---- MODULE Spec2Model ----
(***************************************************************************)
(* Verification model of the resilient query pipeline of the OpenSearch AI *)
(* backend plugin: the circuit breaker and retry executor (ErrorHandler),  *)
(* the error classifier, the query rewrite stage with its PII redaction,   *)
(* the re-rank stage with the heuristic provider, the OpenAI rewrite       *)
(* provider with its cache, the POST /query handler that runs the stages,  *)
(* the ingestion runs with their admin endpoints, the TTL cache, the body  *)
(* of the search request, the PII redaction service on its own, a document *)
(* followed from bulk indexing to re-ranking, and concurrent reindex       *)
(* requests.                                                               *)
(* Each component has its own specification; the variables of the          *)
(* components a specification does not exercise stay at their initial      *)
(* values.                                                                 *)
(***************************************************************************)
EXTENDS Integers, Sequences, FiniteSets, TLC

(***************************************************************************)
(* Bounds of the model.                                                    *)
(***************************************************************************)
\* concurrent callers of CircuitBreaker.execute
NCalls == 2
\* largest configured failureThreshold explored
MaxThreshold == 2
\* largest configured resetTimeoutMs explored (in clock ticks)
MaxReset == 2
\* last clock tick
MaxTime == 4
\* cap on the failure counter (guards the failing completion)
MaxFailures == 3
\* largest configured retries explored
MaxRetries == 2
\* longest input query explored (characters)
MaxQueryChars == 7
\* longest item list handed to reRank
MaxItems == 3
\* most pages a provider is asked for in one ingestion run
MaxPages == 3
\* most items on one page, most documents in one /index body
MaxPageItems == 2
\* longest time to live of a cache entry (in clock ticks)
MaxTtl == 2
\* last result page asked for
MaxPage == 2

VARIABLES
    \* ---- CircuitBreaker (ErrorHandler.ts) ----
    state,              \* CircuitBreakerState
    failureCount,
    lastFailureTime,
    nextAttemptTime,
    failureThreshold,   \* config.failureThreshold
    resetTimeoutMs,     \* config.resetTimeoutMs
    now,                \* Date.now()
    pc,                 \* per caller: where its execute call stands
    admittedIn,         \* per caller in flight: breaker state when operation() was invoked
    serial,             \* history: no call was ever started while another was in flight
    consec,             \* history: execute calls that failed since the last success
    openedAt,           \* history: time of the last transition into OPEN
    hoFailAt,           \* history: time of the last failure of a call admitted in HALF_OPEN
    \* ---- ErrorHandler.withRetry ----
    retries,            \* config.retries
    rPc,                \* where the withRetry call stands
    attempts,           \* invocations of operation so far
    errs,               \* history: the error of every failed invocation, in order
    result,             \* the value withRetry resolved to
    thrown,             \* the error withRetry rejected with
    \* ---- ErrorHandler.isRetryableError ----
    clsErr,             \* the error object classified
    clsPc,              \* "input" before the call, "classified" after
    clsOut,             \* the value returned
    \* ---- QueryRewriteService ----
    rwEnabled,          \* options.enabled
    rwHasProvider,      \* a provider was passed to the constructor
    rwTimeoutOn,        \* options.timeoutMs is set and > 0
    maxQueryLen,        \* options.maxQueryLen
    redactEmails,       \* options.redactEmails
    rwQuery,            \* the query rewrite was called with
    rwPc,               \* where the rewrite call stands
    rwRedacted,         \* rewrite's local: redacted
    rwFound,            \* rewrite's local: found
    provPc,             \* the provider's promise: "none", "pending", "resolved", "rejected"
    provIn,             \* the query the provider was called with
    timerPc,            \* the timeout timer: "unset", "armed", "fired"
    rwOut,              \* what rewrite resolved to
    rwCause,            \* history: what settled the rewrite call
    \* ---- ReRankerService ----
    rrEnabled,          \* options.enabled
    rrHasProvider,      \* a provider was passed to the constructor
    rrTimeoutOn,        \* options.timeoutMs is set and > 0
    rrTopK,             \* options.topK: {} when absent, {k} when set
    rrItems,            \* the items reRank was called with
    rrPc,               \* where the reRank call stands
    rrTail,             \* reRank's local: tail
    rrProvPc,           \* the provider's promise: "none", "pending", "resolved", "rejected"
    rrProvIn,           \* the items the provider was called with (head)
    rrTimerPc,          \* the timeout timer: "unset", "armed", "fired"
    rrOut,              \* what reRank resolved to
    rrCause,            \* history: what settled the reRank call
    \* ---- OpenAIProvider (its breaker is the CircuitBreaker above) ----
    pvHasCache,         \* a cache was passed to the constructor
    pvCache,            \* the rewrite entries of the cache: key -> RewriteOutput
    pvStoredBy,         \* history: key -> the request whose call stored the entry
    pvPc,               \* per caller: where its rewrite call stands
    pvReq,              \* per caller: the /query request (redacted query, filters)
    pvIn,               \* per caller: the RewriteInput of the call
    pvOut,              \* per caller: what rewrite resolved to
    pvServed,           \* history, per caller: "cache" or "provider"
    pvTimedOut,         \* per caller: the rewrite stage that made the call took its timeout fallback
    aiFailStreak,       \* history: rewrite calls in a row whose OpenAI request failed
    \* ---- POST /query ----
    flagRewrite,        \* featureToggle.isRewriteEnabled()
    flagSemantic,       \* featureToggle.isSemanticEnabled()
    flagRerank,         \* featureToggle.isReRankEnabled()
    hasQueryRewrite,    \* services.queryRewrite is defined
    hasEmbedding,       \* services.embedding is defined
    hasReRanker,        \* services.reRanker is defined
    qType,              \* typeof req.body.query
    qQuery,             \* req.body.query when it is a string (else <<>>)
    qPc,                \* where the handler stands
    effectiveQuery,
    hints,
    embPc,              \* the embed call: "none", "pending", "stalled", "resolved", "rejected"
    embVec,             \* the vector embed resolved to
    srchPc,             \* the search call: "none", "pending", "returned", "threw"
    srchReq,            \* the request search built
    srchOut,            \* searchResult
    srchKind,           \* history: how the _search request ended
    qStatus,            \* status of the response (0: none yet)
    qResults,           \* results of the response
    qTotal,             \* total of the response
    aiUsage,            \* history: the events given to observability.recordAiUsage
    \* ---- ingestion: runOnce and POST /admin/reindex/<source> ----
    ingSource,          \* which orchestrator: "catalog", "techdocs" or "apis"
    ingAttached,        \* the orchestrator is attached to the router
    pageSize,           \* this.pageSize
    reindexPc,          \* where the reindex handler stands
    reindexStatus,      \* status of its response (0: none yet)
    reindexBody,        \* {} or {the { pages, items } of the response}
    errorLog,           \* history: the stages passed to observability.recordError
    templatePc,         \* ensureIndexTemplate of the request: "none", "pending", "resolved", "rejected"
    ingPc,              \* runOnce: "idle", "fetching", "indexing", "resolved", "rejected"
    after,              \* runOnce's local: after
    pages,              \* runOnce's local: pages
    total,              \* runOnce's local: total
    fetchLog,           \* history: the argument of every fetch call
    seenPages,          \* history: the pages the provider returned
    bulkLog,            \* history: the bulk-index calls of the run
    indexedLog,         \* history: res.indexed of every index call that resolved
    eventLog,           \* history: the events passed to observability.recordIndexing
    runOut,             \* {} or {what runOnce resolved to}
    runErr,             \* which call's error runOnce rejected with
    \* ---- POST /index ----
    ixSource,           \* req.body.source
    ixDocs,             \* req.body.docs
    ixPc,               \* where the handler stands
    ixStatus,           \* status of the response (0: none yet)
    ixBulk,             \* history: the bulkIndex calls of the handler
    ixIndexed,          \* {} or {indexed of the response}
    \* ---- InMemoryCacheService ----
    stdTTL,             \* options.defaultTtlSeconds ?? 300
    checkperiod,        \* options.checkPeriodSeconds ?? 60 (0: no periodic check)
    cacheNow,           \* Date.now()
    cacheData,          \* node-cache's entries: key -> [v, t]
    sweepDue,           \* when the periodic check is due next
    stored,             \* history: key -> value, time and ttl of its last set
    lastGet,            \* history: the last get of a key not written since
    \* ---- OpenSearchClient.search ----
    sQuery,             \* query
    sPage,              \* options.page: {} or {n}
    sPageSize,          \* options.pageSize: {} or {n}
    sFilters,           \* options.filters
    sHints,             \* options.hints
    sPc,                \* "idle" before the call, "requested" once the body is built
    sBody,              \* q, the body of the _search request
    \* ---- PIIRedactionService ----
    piiConfig,          \* the config the service was constructed with
    piiPatterns,        \* this.patterns, by name
    piiText,            \* the text given to redact
    piiPc,              \* "idle", "redacted" after redact, "asked" after isEnabled
    piiOut,             \* what the call returned
    \* ---- a document from bulkIndex through search to reRank ----
    bPrefix,            \* config.indexPrefix: {} or {prefix}
    bSource,            \* the source name the document is bulk-indexed under
    bBoosts,            \* ctx.boosts.sources of the reRank call
    bHitScore,          \* _score of the hit
    bFreshness,         \* the freshness bonus of the document at reRank time
    bPc,                \* "idle", "indexed", "found", "reranked"
    bStored,            \* the document as stored: its _index and _source
    bItem,              \* the SearchItem search returns for it
    bScore,             \* the score reRank gives the item
    \* ---- concurrent reindex requests for one source ----
    ovPc,               \* per request: "idle", "template", "fetching", "indexing", "done", "failed"
    ovPages,            \* per request: pages (local of its runOnce)
    ovMore,             \* per request: whether the cursor of the page in hand is truthy
    ovLog               \* the calls made on the provider and the indexer, with the run that made them

brkVars == <<state, failureCount, lastFailureTime, nextAttemptTime, failureThreshold,
             resetTimeoutMs, now, pc, admittedIn, serial, consec, openedAt, hoFailAt>>

retryVars == <<retries, rPc, attempts, errs, result, thrown>>

clsVars == <<clsErr, clsPc, clsOut>>

rwVars == <<rwEnabled, rwHasProvider, rwTimeoutOn, maxQueryLen, redactEmails, rwQuery,
            rwPc, rwRedacted, rwFound, provPc, provIn, timerPc, rwOut, rwCause>>

rrVars == <<rrEnabled, rrHasProvider, rrTimeoutOn, rrTopK, rrItems, rrPc, rrTail,
            rrProvPc, rrProvIn, rrTimerPc, rrOut, rrCause>>

pvVars == <<pvHasCache, pvCache, pvStoredBy, pvPc, pvReq, pvIn, pvOut, pvServed, pvTimedOut,
            aiFailStreak>>

qConfigVars == <<flagRewrite, flagSemantic, flagRerank, hasQueryRewrite, hasEmbedding,
                 hasReRanker, qType, qQuery>>

qVars == <<qConfigVars, qPc, effectiveQuery, hints, embPc, embVec, srchPc, srchReq, srchOut,
           srchKind, qStatus, qResults, qTotal, aiUsage>>

ingConfigVars == <<ingSource, ingAttached, pageSize>>

reindexVars == <<reindexPc, reindexStatus, reindexBody, errorLog, templatePc>>

runVars == <<ingPc, after, pages, total, fetchLog, seenPages, bulkLog, indexedLog, eventLog,
             runOut, runErr>>

ixVars == <<ixSource, ixDocs, ixPc, ixStatus, ixBulk, ixIndexed>>

ingVars == <<ingConfigVars, reindexVars, runVars, ixVars>>

cacheVars == <<stdTTL, checkperiod, cacheNow, cacheData, sweepDue, stored, lastGet>>

sbVars == <<sQuery, sPage, sPageSize, sFilters, sHints, sPc, sBody>>

piiVars == <<piiConfig, piiPatterns, piiText, piiPc, piiOut>>

e2eVars == <<bPrefix, bSource, bBoosts, bHitScore, bFreshness, bPc, bStored, bItem, bScore>>

ovVars == <<ovPc, ovPages, ovMore, ovLog>>

vars == <<brkVars, retryVars, clsVars, rwVars, rrVars, pvVars, qVars, ingVars, cacheVars,
          sbVars, piiVars, e2eVars, ovVars>>

Callers == 1..NCalls

\* what the actions of one component leave alone
BrkOthers == <<retryVars, clsVars, rwVars, rrVars, pvVars, qVars, ingVars, cacheVars, sbVars, piiVars, e2eVars, ovVars>>
RetryOthers == <<brkVars, clsVars, rwVars, rrVars, pvVars, qVars, ingVars, cacheVars, sbVars, piiVars, e2eVars, ovVars>>
ClsOthers == <<brkVars, retryVars, rwVars, rrVars, pvVars, qVars, ingVars, cacheVars, sbVars, piiVars, e2eVars, ovVars>>
RwOthers == <<brkVars, retryVars, clsVars, rrVars, pvVars, qVars, ingVars, cacheVars, sbVars, piiVars, e2eVars, ovVars>>
RrOthers == <<brkVars, retryVars, clsVars, rwVars, pvVars, qVars, ingVars, cacheVars, sbVars, piiVars, e2eVars, ovVars>>
PvOthers == <<retryVars, clsVars, rwVars, rrVars, qVars, ingVars, cacheVars, sbVars, piiVars, e2eVars, ovVars>>
QOthers == <<brkVars, retryVars, clsVars, pvVars, ingVars, cacheVars, sbVars, piiVars, e2eVars, ovVars>>
IngOthers == <<brkVars, retryVars, clsVars, rwVars, rrVars, pvVars, qVars, cacheVars, sbVars, piiVars, e2eVars, ovVars>>
CacheOthers == <<brkVars, retryVars, clsVars, rwVars, rrVars, pvVars, qVars, ingVars, sbVars, piiVars, e2eVars, ovVars>>
PiiOthers == <<brkVars, retryVars, clsVars, rwVars, rrVars, pvVars, qVars, ingVars, cacheVars, sbVars, e2eVars, ovVars>>
E2eOthers == <<brkVars, retryVars, clsVars, rwVars, rrVars, pvVars, qVars, ingVars, cacheVars, sbVars, piiVars, ovVars>>
OvOthers == <<brkVars, retryVars, clsVars, rwVars, rrVars, pvVars, qVars, ingVars, cacheVars, sbVars, piiVars, e2eVars>>
SbOthers == <<brkVars, retryVars, clsVars, rwVars, rrVars, pvVars, qVars, ingVars, cacheVars, piiVars, e2eVars, ovVars>>

(***************************************************************************)
(* CircuitBreaker                                                          *)
(***************************************************************************)
CircuitBreakerState == {"CLOSED", "OPEN", "HALF_OPEN"}

\* saturation point of the history counter consec
ConsecCap == MaxFailures + 1

Bump(n) == IF n < ConsecCap THEN n + 1 ELSE ConsecCap

\* the fields of a new CircuitBreaker, and a configuration
BrkInit ==
    /\ state = "CLOSED"
    /\ failureCount = 0
    /\ lastFailureTime = 0
    /\ nextAttemptTime = 0
    /\ failureThreshold \in 1..MaxThreshold
    /\ resetTimeoutMs \in 1..MaxReset
    /\ now = 0
    /\ pc = [c \in Callers |-> "idle"]
    /\ admittedIn = [c \in Callers |-> "none"]
    /\ serial = TRUE
    /\ consec = 0
    /\ openedAt = -1
    /\ hoFailAt = -1

BrkIdle ==
    /\ state = "CLOSED"
    /\ failureCount = 0
    /\ lastFailureTime = 0
    /\ nextAttemptTime = 0
    /\ failureThreshold = 1
    /\ resetTimeoutMs = 1
    /\ now = 0
    /\ pc = [c \in Callers |-> "idle"]
    /\ admittedIn = [c \in Callers |-> "none"]
    /\ serial = TRUE
    /\ consec = 0
    /\ openedAt = -1
    /\ hoFailAt = -1

\* (mutant) the cooldown is compared with the time of the last failure
IsRejected_lastFailure == state = "OPEN" /\ now < lastFailureTime

\* execute: the OPEN check of a call that is rejected
IsRejected == state = "OPEN" /\ now < nextAttemptTime

\* execute: the state in which operation() is invoked
StateAtInvoke == IF state = "OPEN" THEN "HALF_OPEN" ELSE state

\* (mutant) a success zeroes the failure counter but leaves the state alone
onSuccess_keepState ==
    /\ failureCount' = 0
    /\ UNCHANGED <<state, lastFailureTime, nextAttemptTime>>

\* (mutant) a success closes the breaker but keeps the failure counter
onSuccess_keepCount ==
    /\ state' = "CLOSED"
    /\ UNCHANGED <<failureCount, lastFailureTime, nextAttemptTime>>

onSuccess ==
    /\ failureCount' = 0
    /\ state' = "CLOSED"
    /\ UNCHANGED <<lastFailureTime, nextAttemptTime>>

\* (mutant) the breaker opens one failure late: > instead of >=
onFailure_gt ==
    /\ failureCount' = failureCount + 1
    /\ lastFailureTime' = now
    /\ IF failureCount + 1 > failureThreshold
         THEN /\ state' = "OPEN"
              /\ nextAttemptTime' = now + resetTimeoutMs
         ELSE UNCHANGED <<state, nextAttemptTime>>

onFailure ==
    /\ failureCount' = failureCount + 1
    /\ lastFailureTime' = now
    /\ IF failureCount + 1 >= failureThreshold
         THEN /\ state' = "OPEN"
              /\ nextAttemptTime' = now + resetTimeoutMs
         ELSE UNCHANGED <<state, nextAttemptTime>>

\* execute up to the first await: the OPEN check, the optimistic HALF_OPEN
\* transition and the invocation of operation()
ExecuteCallStep(c) ==
    /\ pc[c] = "idle"
    /\ IF IsRejected
         THEN /\ pc' = [pc EXCEPT ![c] = "rejected"]
              /\ consec' = Bump(consec)
              /\ UNCHANGED <<state, admittedIn, serial>>
         ELSE /\ state' = StateAtInvoke
              /\ pc' = [pc EXCEPT ![c] = "inflight"]
              /\ admittedIn' = [admittedIn EXCEPT ![c] = StateAtInvoke]
              /\ serial' = (serial /\ \A d \in Callers : pc[d] # "inflight")
              /\ UNCHANGED consec
    /\ UNCHANGED <<failureCount, lastFailureTime, nextAttemptTime, failureThreshold,
                   resetTimeoutMs, now, openedAt, hoFailAt>>

\* execute up to its await, for one caller of the breaker alone
ExecuteCall(c) == ExecuteCallStep(c) /\ UNCHANGED BrkOthers

\* operation() resolved: onSuccess, the result is returned
ExecuteOkStep(c) ==
    /\ pc[c] = "inflight"
    /\ onSuccess
    /\ pc' = [pc EXCEPT ![c] = "ok"]
    /\ admittedIn' = [admittedIn EXCEPT ![c] = "none"]
    /\ consec' = 0
    /\ UNCHANGED <<failureThreshold, resetTimeoutMs, now, serial, openedAt, hoFailAt>>

\* operation() resolved, for one caller of the breaker alone
ExecuteOk(c) == ExecuteOkStep(c) /\ UNCHANGED BrkOthers

\* operation() rejected: onFailure, the error is rethrown
ExecuteErrStep(c) ==
    /\ pc[c] = "inflight"
    /\ failureCount < MaxFailures
    /\ onFailure
    /\ pc' = [pc EXCEPT ![c] = "err"]
    /\ admittedIn' = [admittedIn EXCEPT ![c] = "none"]
    /\ consec' = Bump(consec)
    /\ openedAt' = IF state # "OPEN" /\ state' = "OPEN" THEN now ELSE openedAt
    /\ hoFailAt' = IF admittedIn[c] = "HALF_OPEN" THEN now ELSE hoFailAt
    /\ UNCHANGED <<failureThreshold, resetTimeoutMs, now, serial>>

\* operation() rejected, for one caller of the breaker alone
ExecuteErr(c) == ExecuteErrStep(c) /\ UNCHANGED BrkOthers

\* the caller has taken the outcome of its call and may call again
ReturnStep(c) ==
    /\ pc[c] \in {"ok", "err", "rejected"}
    /\ pc' = [pc EXCEPT ![c] = "idle"]
    /\ UNCHANGED <<state, failureCount, lastFailureTime, nextAttemptTime, failureThreshold,
                   resetTimeoutMs, now, admittedIn, serial, consec, openedAt, hoFailAt>>

\* the outcome is taken, for one caller of the breaker alone
Return(c) == ReturnStep(c) /\ UNCHANGED BrkOthers

\* the clock advances
Tick ==
    /\ UNCHANGED BrkOthers
    /\ now < MaxTime
    /\ now' = now + 1
    /\ UNCHANGED <<state, failureCount, lastFailureTime, nextAttemptTime, failureThreshold,
                   resetTimeoutMs, pc, admittedIn, serial, consec, openedAt, hoFailAt>>

BrkNext ==
    \/ \E c \in Callers : ExecuteCall(c)
    \/ \E c \in Callers : ExecuteOk(c)
    \/ \E c \in Callers : ExecuteErr(c)
    \/ \E c \in Callers : Return(c)
    \/ Tick

(***************************************************************************)
(* Error objects and ErrorHandler.isRetryableError                         *)
(***************************************************************************)
\* an error object carries any of the properties code, status and type
CodeValues == {"ECONNRESET", "ENOTFOUND", "TIMEOUT", "SOME_OTHER_ERROR"}
StatusValues == {0, 400, 401, 404, 408, 429, 500, 502, 503, 504}
TypeValues == {"insufficient_quota", "server_error", "invalid_request"}

Opt(f, V) == {<<>>} \cup {f :> v : v \in V}

ErrorObjects ==
    {c @@ s @@ t : c \in Opt("code", CodeValues),
                   s \in Opt("status", StatusValues),
                   t \in Opt("type", TypeValues)}

Has(e, f) == f \in DOMAIN e

retryableCodes == {"ECONNRESET", "ENOTFOUND", "TIMEOUT"}
retryableStatuses == {408, 429, 500, 502, 503, 504}
retryableTypes == {"insufficient_quota", "server_error"}

\* (mutant) 429 (rate limit) is missing from the retryable statuses
isRetryableError_no429(error) ==
    IF Has(error, "code") /\ error["code"] \in retryableCodes THEN TRUE
    ELSE IF Has(error, "status") /\ error["status"] # 0
           THEN error["status"] \in (retryableStatuses \ {429})
    ELSE IF Has(error, "type") /\ error["type"] \in retryableTypes THEN TRUE
    ELSE FALSE

isRetryableError(error) ==
    IF Has(error, "code") /\ error["code"] \in retryableCodes THEN TRUE
    ELSE IF Has(error, "status") /\ error["status"] # 0
           THEN error["status"] \in retryableStatuses
    ELSE IF Has(error, "type") /\ error["type"] \in retryableTypes THEN TRUE
    ELSE FALSE

ClsInit ==
    /\ clsErr \in ErrorObjects
    /\ clsPc = "input"
    /\ clsOut = FALSE

ClsIdle ==
    /\ clsErr = <<>>
    /\ clsPc = "input"
    /\ clsOut = FALSE

\* one call of isRetryableError(clsErr)
Classify ==
    /\ clsPc = "input"
    /\ clsOut' = isRetryableError(clsErr)
    /\ clsPc' = "classified"
    /\ UNCHANGED clsErr
    /\ UNCHANGED ClsOthers

ClsNext == Classify

(***************************************************************************)
(* ErrorHandler.withRetry (p-retry: the operation is run again after every *)
(* rejection until `retries` retries are used up, then the last rejection  *)
(* reason is surfaced)                                                     *)
(***************************************************************************)
\* the errors the operation of the retry model may fail with
OpErrors ==
    {("status" :> 400), ("status" :> 503), ("code" :> "ECONNRESET"),
     ("type" :> "invalid_request"), <<>>}

OpValues == {"v1", "v2"}

NoError == "none" :> TRUE

RetryInit ==
    /\ retries \in 0..MaxRetries
    /\ rPc = "idle"
    /\ attempts = 0
    /\ errs = <<>>
    /\ result = "none"
    /\ thrown = NoError

RetryIdle ==
    /\ retries = 0
    /\ rPc = "idle"
    /\ attempts = 0
    /\ errs = <<>>
    /\ result = "none"
    /\ thrown = NoError

\* (mutant) one attempt too few: the budget counts the first invocation
RetriesLeft_offByOne == attempts < retries

\* p-retry: retries are left after the invocation that just failed
RetriesLeft == attempts <= retries

\* withRetry is called: pRetry invokes the operation a first time
WithRetry ==
    /\ rPc = "idle"
    /\ rPc' = "calling"
    /\ attempts' = 1
    /\ UNCHANGED <<retries, errs, result, thrown>>
    /\ UNCHANGED RetryOthers

\* the invocation in flight resolves: withRetry resolves to its value
OperationResolves(v) ==
    /\ rPc = "calling"
    /\ rPc' = "resolved"
    /\ result' = v
    /\ UNCHANGED <<retries, attempts, errs, thrown>>
    /\ UNCHANGED RetryOthers

\* the invocation in flight rejects: onFailedAttempt logs, and either a retry
\* is scheduled or withRetry rejects with this error
OperationRejects(e) ==
    /\ rPc = "calling"
    /\ errs' = Append(errs, e)
    /\ IF RetriesLeft
         THEN /\ rPc' = "backoff"
              /\ UNCHANGED thrown
         ELSE /\ rPc' = "rejected"
              /\ thrown' = e
    /\ UNCHANGED <<retries, attempts, result>>
    /\ UNCHANGED RetryOthers

\* the backoff delay has passed: the operation is invoked again
RetryAttempt ==
    /\ rPc = "backoff"
    /\ rPc' = "calling"
    /\ attempts' = attempts + 1
    /\ UNCHANGED <<retries, errs, result, thrown>>
    /\ UNCHANGED RetryOthers

RetryNext ==
    \/ WithRetry
    \/ \E v \in OpValues : OperationResolves(v)
    \/ \E e \in OpErrors : OperationRejects(e)
    \/ RetryAttempt

(***************************************************************************)
(* Text.  A text is a sequence of characters over a three-letter alphabet: *)
(* "a" stands for the word characters, "@" and "." for themselves.  Over   *)
(* this alphabet only the e-mail pattern of PIIRedactionService can match: *)
(* every token pattern needs a literal (bearer, api_key, AKIA, ghp_, eyJ)  *)
(* that cannot be spelled.                                                 *)
(***************************************************************************)
Alphabet == {"a", "@", "."}

Texts == UNION {[1..n -> Alphabet] : n \in 0..MaxQueryChars}

Max(S) == CHOOSE x \in S : \A y \in S : y <= x
Min(S) == CHOOSE x \in S : \A y \in S : x <= y

(***************************************************************************)
(* PIIRedactionService: the e-mail pattern                                 *)
(*   /\b[A-Za-z0-9._%+-]+@[A-Za-z0-9.-]+\.[A-Z|a-z]{2,}\b/g                *)
(* restricted to the alphabet, with the matching order of a backtracking   *)
(* regular expression (leftmost start, greedy quantifiers).                *)
(***************************************************************************)
LocalChars == {"a", "."}
DomainChars == {"a", "."}
TldChars == {"a"}

\* \w at position i (positions outside the text are not word characters)
IsWordChar(t, i) == i \in 1..Len(t) /\ t[i] = "a"

\* \b between positions i and i+1
WordBoundary(t, i) == IsWordChar(t, i) # IsWordChar(t, i + 1)

\* the last position of the longest run of characters of C that starts at s
\* (s - 1 when there is none)
RunEnd(t, s, C) ==
    CHOOSE j \in (s - 1)..Len(t) :
        /\ \A k \in s..j : t[k] \in C
        /\ (j = Len(t) \/ t[j + 1] \notin C)

\* the last position of the match that starts at s, 0 when none starts there
EmailEnd(t, s) ==
    LET l == RunEnd(t, s, LocalChars) IN
    IF ~WordBoundary(t, s - 1) \/ l < s \/ l + 1 > Len(t) THEN 0
    ELSE IF t[l + 1] # "@" THEN 0
    ELSE LET d0 == l + 2
             r == RunEnd(t, d0, DomainChars)
             dots == {p \in (d0 + 1)..r :
                         t[p] = "." /\ RunEnd(t, p + 1, TldChars) >= p + 2}
         IN IF dots = {} THEN 0 ELSE RunEnd(t, Max(dots) + 1, TldChars)

\* the starts of matches at or after pos
EmailStarts(t, pos) == {s \in pos..Len(t) : EmailEnd(t, s) > 0}

\* text.match(pattern): the matched substrings, left to right
RECURSIVE EmailMatches(_, _)
EmailMatches(t, pos) ==
    IF EmailStarts(t, pos) = {} THEN <<>>
    ELSE LET s == Min(EmailStarts(t, pos))
             e == EmailEnd(t, s)
         IN <<SubSeq(t, s, e)>> \o EmailMatches(t, e + 1)

\* text.replace(pattern, '[EMAIL]')
RECURSIVE ReplaceEmails(_, _)
ReplaceEmails(t, pos) ==
    IF EmailStarts(t, pos) = {} THEN SubSeq(t, pos, Len(t))
    ELSE LET s == Min(EmailStarts(t, pos))
             e == EmailEnd(t, s)
         IN SubSeq(t, pos, s - 1) \o <<"[EMAIL]">> \o ReplaceEmails(t, e + 1)

\* the length of the matched text a finding quotes: match.substring(0, 10)
FindingPrefix == 10

\* `${name}: ${match.substring(0, 10)}...`
Finding(name, match) ==
    [name |-> name,
     head |-> SubSeq(match, 1, IF Len(match) < FindingPrefix THEN Len(match)
                                ELSE FindingPrefix)]

\* redact(text) of a service whose only pattern that can match is the e-mail
\* pattern, present when emails is TRUE
redact(text, emails) ==
    IF emails /\ EmailMatches(text, 1) # <<>>
      THEN [redacted |-> ReplaceEmails(text, 1),
            found |-> [i \in 1..Len(EmailMatches(text, 1)) |->
                          Finding("email", EmailMatches(text, 1)[i])]]
      ELSE [redacted |-> text, found |-> <<>>]

(***************************************************************************)
(* QueryRewriteService                                                     *)
(***************************************************************************)
\* the values a provider may resolve to (RewriteOutput); the first has an
\* empty query
ProviderOutputs ==
    {[query |-> <<>>, intent |-> <<"api">>, expanded |-> <<"openapi">>,
      boosts |-> [sources |-> <<"apis">>, tags |-> <<>>], filters |-> <<>>],
     [query |-> <<"a", "a">>, intent |-> <<"owner">>, expanded |-> <<"team">>,
      boosts |-> [sources |-> <<>>, tags |-> <<"runbook">>],
      filters |-> <<"kind">>]}

\* why a provider call may reject
ProviderFailures == {"error", "circuit_open"}

HintFields == {"intent", "expanded", "boosts", "filters"}

NoOutput == "none" :> TRUE

truncate(q) == IF Len(q) > maxQueryLen THEN SubSeq(q, 1, maxQueryLen) ELSE q

isEnabled == rwEnabled /\ rwHasProvider

\* piiFound: found.length > 0 ? found : undefined
PiiFound(found) == IF Len(found) > 0 THEN "piiFound" :> found ELSE <<>>

\* .then(r => ({ ...r, query: r.query || redacted, piiFound: ... }))
OnProviderValue(r, redacted, found) ==
    ("query" :> (IF r.query # <<>> THEN r.query ELSE redacted))
        @@ PiiFound(found) @@ r

\* (mutant) the fallback hands back the query as it came in
OnRewriteError_rawQuery(redacted, found) ==
    [kind |-> "return", out |-> ("query" :> rwQuery) @@ PiiFound(found)]

\* the catch block: the safe fallback with the redacted query
OnRewriteError(redacted, found) ==
    [kind |-> "return", out |-> ("query" :> redacted) @@ PiiFound(found)]

RwConfig ==
    /\ rwEnabled \in BOOLEAN
    /\ rwHasProvider \in BOOLEAN
    /\ rwTimeoutOn \in BOOLEAN
    /\ maxQueryLen \in {MaxQueryChars - 1, MaxQueryChars}
    /\ redactEmails \in BOOLEAN

RwInit ==
    /\ RwConfig
    /\ rwQuery \in Texts
    /\ rwPc = "idle"
    /\ rwRedacted = <<>>
    /\ rwFound = <<>>
    /\ provPc = "none"
    /\ provIn = <<>>
    /\ timerPc = "unset"
    /\ rwOut = NoOutput
    /\ rwCause = "none"

RwIdle ==
    /\ rwEnabled = FALSE
    /\ rwHasProvider = FALSE
    /\ rwTimeoutOn = FALSE
    /\ maxQueryLen = 0
    /\ redactEmails = FALSE
    /\ rwQuery = <<>>
    /\ rwPc = "idle"
    /\ rwRedacted = <<>>
    /\ rwFound = <<>>
    /\ provPc = "none"
    /\ provIn = <<>>
    /\ timerPc = "unset"
    /\ rwOut = NoOutput
    /\ rwCause = "none"

\* how the awaited race ends in an error: the catch block decides
Caught(cause) ==
    LET c == OnRewriteError(rwRedacted, rwFound) IN
    /\ rwPc' = (IF c.kind = "return" THEN "returned" ELSE "threw")
    /\ rwOut' = c.out
    /\ rwCause' = cause

\* rewrite(query) up to its await: the isEnabled check, truncation, redaction,
\* the provider call and the timer
RewriteCallStep(query) ==
    /\ rwPc = "idle"
    /\ rwQuery' = query
    /\ IF ~isEnabled
         THEN /\ rwPc' = "returned"
              /\ rwOut' = ("query" :> query)
              /\ rwCause' = "disabled"
              /\ UNCHANGED <<rwRedacted, rwFound, provPc, provIn, timerPc>>
         ELSE LET r == redact(truncate(query), redactEmails) IN
              /\ rwRedacted' = r.redacted
              /\ rwFound' = r.found
              /\ provPc' = "pending"
              /\ provIn' = r.redacted
              /\ timerPc' = (IF rwTimeoutOn THEN "armed" ELSE "unset")
              /\ rwPc' = "awaiting"
              /\ UNCHANGED <<rwOut, rwCause>>
    /\ UNCHANGED <<rwEnabled, rwHasProvider, rwTimeoutOn, maxQueryLen, redactEmails>>

\* one rewrite call on its own, with the query chosen beforehand
RewriteCall == RewriteCallStep(rwQuery) /\ UNCHANGED RwOthers

\* the provider's promise resolves; rewrite returns the mapped value unless
\* the race is already settled
ProviderResolves(r) ==
    /\ provPc = "pending"
    /\ provPc' = "resolved"
    /\ IF rwPc = "awaiting"
         THEN /\ rwPc' = "returned"
              /\ rwOut' = OnProviderValue(r, rwRedacted, rwFound)
              /\ rwCause' = "provider"
         ELSE UNCHANGED <<rwPc, rwOut, rwCause>>
    /\ UNCHANGED <<rwEnabled, rwHasProvider, rwTimeoutOn, maxQueryLen, redactEmails, rwQuery,
                   rwRedacted, rwFound, provIn, timerPc>>
    /\ UNCHANGED RwOthers

\* the provider's promise rejects (an error, or its breaker is open)
ProviderRejects(why) ==
    /\ provPc = "pending"
    /\ provPc' = "rejected"
    /\ IF rwPc = "awaiting"
         THEN Caught(why)
         ELSE UNCHANGED <<rwPc, rwOut, rwCause>>
    /\ UNCHANGED <<rwEnabled, rwHasProvider, rwTimeoutOn, maxQueryLen, redactEmails, rwQuery,
                   rwRedacted, rwFound, provIn, timerPc>>
    /\ UNCHANGED RwOthers

\* the timer fires: reject(new Error('rewrite timeout'))
TimeoutFires ==
    /\ timerPc = "armed"
    /\ timerPc' = "fired"
    /\ IF rwPc = "awaiting"
         THEN Caught("timeout")
         ELSE UNCHANGED <<rwPc, rwOut, rwCause>>
    /\ UNCHANGED <<rwEnabled, rwHasProvider, rwTimeoutOn, maxQueryLen, redactEmails, rwQuery,
                   rwRedacted, rwFound, provPc, provIn>>
    /\ UNCHANGED RwOthers

RwNext ==
    \/ RewriteCall
    \/ \E r \in ProviderOutputs : ProviderResolves(r)
    \/ \E why \in ProviderFailures : ProviderRejects(why)
    \/ TimeoutFires

(***************************************************************************)
(* HeuristicReRankProvider.  Scores are kept in millionths, the unit of    *)
(* the tie-breaker, so that the arithmetic of the provider is exact.  An   *)
(* item of the model has a title and a text but no source, tags or         *)
(* updated_at field: the source, tag and freshness bonuses are zero.       *)
(***************************************************************************)
\* score += 0.5 when the text of the item contains the query
TextBonus == 500000
\* score += 0.75 when the title contains the query
TitleBonus == 750000
\* idx * 1e-6
Epsilon == 1

\* backend scores an item may come with
BaseScores == {0, TextBonus + TitleBonus}

\* where the query occurs in the item: nowhere, in its text only, or in its
\* title (textify includes the title, so a title match is a text match too)
MatchKinds == {"none", "text", "title"}

ItemKinds == [score : BaseScores, match : MatchKinds]

\* the lists of SearchItems: the item at position i has id i
ItemLists ==
    UNION {{[i \in 1..n |-> [id |-> i, score |-> f[i].score, match |-> f[i].match]] :
               f \in [1..n -> ItemKinds]} : n \in 0..MaxItems}

\* the score of one item before the tie-breaker
HeuristicScore(it) ==
    it.score + (IF it.match \in {"text", "title"} THEN TextBonus ELSE 0)
             + (IF it.match = "title" THEN TitleBonus ELSE 0)

\* items.map((it, idx) => ({ it, score: score + idx * 1e-6 }))
Scored(items) ==
    [i \in 1..Len(items) |->
        [it |-> items[i], score |-> HeuristicScore(items[i]) + (i - 1) * Epsilon]]

\* scored.sort((a, b) => b.score - a.score): the place of entry i in the
\* sorted array (the sort is stable)
SortedPlace(scored, i) ==
    1 + Cardinality({j \in 1..Len(scored) :
                        \/ scored[j].score > scored[i].score
                        \/ scored[j].score = scored[i].score /\ j < i})

\* HeuristicReRankProvider.reRank
HeuristicReRank(items) ==
    LET scored == Scored(items)
        at(k) == CHOOSE i \in 1..Len(items) : SortedPlace(scored, i) = k
    IN [k \in 1..Len(items) |->
           [id |-> items[at(k)].id, score |-> scored[at(k)].score,
            match |-> items[at(k)].match]]

(***************************************************************************)
(* ReRankerService                                                         *)
(***************************************************************************)
\* this.options.topK ?? 50
DefaultTopK == 50

\* options.topK: absent, or a number
TopKOptions == {{}} \cup {{k} : k \in 0..MaxItems - 1}

rrIsEnabled == rrEnabled /\ rrHasProvider

\* Math.min(this.options.topK ?? 50, items.length)
TopK(items) ==
    LET k == IF rrTopK = {} THEN DefaultTopK ELSE CHOOSE x \in rrTopK : TRUE
    IN IF k < Len(items) THEN k ELSE Len(items)

\* items.slice(0, topK)
head(items) == SubSeq(items, 1, TopK(items))

\* (mutant) the tail starts one item late
tail_skipOne(items) == SubSeq(items, TopK(items) + 2, Len(items))

\* items.slice(topK)
tail(items) == SubSeq(items, TopK(items) + 1, Len(items))

\* (mutant) the fallback hands back the head only
OnReRankError_headOnly(items) == head(items)

\* the catch block: the safe fallback
OnReRankError(items) == items

RrConfig ==
    /\ rrEnabled \in BOOLEAN
    /\ rrHasProvider \in BOOLEAN
    /\ rrTimeoutOn \in BOOLEAN
    /\ rrTopK \in TopKOptions

RrInit ==
    /\ RrConfig
    /\ rrItems \in ItemLists
    /\ rrPc = "idle"
    /\ rrTail = <<>>
    /\ rrProvPc = "none"
    /\ rrProvIn = <<>>
    /\ rrTimerPc = "unset"
    /\ rrOut = <<>>
    /\ rrCause = "none"

RrIdle ==
    /\ rrEnabled = FALSE
    /\ rrHasProvider = FALSE
    /\ rrTimeoutOn = FALSE
    /\ rrTopK = {}
    /\ rrItems = <<>>
    /\ rrPc = "idle"
    /\ rrTail = <<>>
    /\ rrProvPc = "none"
    /\ rrProvIn = <<>>
    /\ rrTimerPc = "unset"
    /\ rrOut = <<>>
    /\ rrCause = "none"

\* reRank(query, items) up to its await: the isEnabled check, the split into
\* head and tail, the provider call and the timer
ReRankCallStep(items) ==
    /\ rrPc = "idle"
    /\ rrItems' = items
    /\ IF ~rrIsEnabled
         THEN /\ rrPc' = "returned"
              /\ rrOut' = items
              /\ rrCause' = "disabled"
              /\ UNCHANGED <<rrTail, rrProvPc, rrProvIn, rrTimerPc>>
         ELSE /\ rrTail' = tail(items)
              /\ rrProvPc' = "pending"
              /\ rrProvIn' = head(items)
              /\ rrTimerPc' = (IF rrTimeoutOn THEN "armed" ELSE "unset")
              /\ rrPc' = "awaiting"
              /\ UNCHANGED <<rrOut, rrCause>>
    /\ UNCHANGED <<rrEnabled, rrHasProvider, rrTimeoutOn, rrTopK>>

\* one reRank call on its own, with the items chosen beforehand
ReRankCall == ReRankCallStep(rrItems) /\ UNCHANGED RrOthers

\* (mutant) a late result of the provider replaces what reRank returned
ReRankProviderResolves_overwrite ==
    /\ rrProvPc = "pending"
    /\ rrProvPc' = "resolved"
    /\ rrPc' = "returned"
    /\ rrOut' = HeuristicReRank(rrProvIn) \o rrTail
    /\ rrCause' = (IF rrPc = "awaiting" THEN "provider" ELSE rrCause)
    /\ UNCHANGED <<rrEnabled, rrHasProvider, rrTimeoutOn, rrTopK, rrItems, rrTail,
                   rrProvIn, rrTimerPc>>
    /\ UNCHANGED RrOthers

\* the provider's promise resolves; reRank returns [...reranked, ...tail]
\* unless the race is already settled
ReRankProviderResolves ==
    /\ rrProvPc = "pending"
    /\ rrProvPc' = "resolved"
    /\ IF rrPc = "awaiting"
         THEN /\ rrPc' = "returned"
              /\ rrOut' = HeuristicReRank(rrProvIn) \o rrTail
              /\ rrCause' = "provider"
         ELSE UNCHANGED <<rrPc, rrOut, rrCause>>
    /\ UNCHANGED <<rrEnabled, rrHasProvider, rrTimeoutOn, rrTopK, rrItems, rrTail,
                   rrProvIn, rrTimerPc>>
    /\ UNCHANGED RrOthers

\* the provider's promise rejects
ReRankProviderRejects ==
    /\ rrProvPc = "pending"
    /\ rrProvPc' = "rejected"
    /\ IF rrPc = "awaiting"
         THEN /\ rrPc' = "returned"
              /\ rrOut' = OnReRankError(rrItems)
              /\ rrCause' = "error"
         ELSE UNCHANGED <<rrPc, rrOut, rrCause>>
    /\ UNCHANGED <<rrEnabled, rrHasProvider, rrTimeoutOn, rrTopK, rrItems, rrTail,
                   rrProvIn, rrTimerPc>>
    /\ UNCHANGED RrOthers

\* the timer fires: reject(new Error('rerank timeout'))
ReRankTimeoutFires ==
    /\ rrTimerPc = "armed"
    /\ rrTimerPc' = "fired"
    /\ IF rrPc = "awaiting"
         THEN /\ rrPc' = "returned"
              /\ rrOut' = OnReRankError(rrItems)
              /\ rrCause' = "timeout"
         ELSE UNCHANGED <<rrPc, rrOut, rrCause>>
    /\ UNCHANGED <<rrEnabled, rrHasProvider, rrTimeoutOn, rrTopK, rrItems, rrTail,
                   rrProvPc, rrProvIn>>
    /\ UNCHANGED RrOthers

RrNext ==
    \/ ReRankCall
    \/ ReRankProviderResolves
    \/ ReRankProviderRejects
    \/ ReRankTimeoutFires

(***************************************************************************)
(* OpenAIProvider: the rewrite provider with its cache and its circuit     *)
(* breaker, called by QueryRewriteService on behalf of /query requests.    *)
(* The queries are texts without white space or intent keywords, so        *)
(* getFallbackRewrite leaves the query as it is and finds no intent.       *)
(***************************************************************************)
\* failureThreshold of the provider's breaker
ProviderFailureThreshold == 5

\* saturation point of the history counter aiFailStreak
StreakCap == ProviderFailureThreshold + 1

\* the redacted queries of the requests
ProviderQueries == {<<"a">>, <<"a", "a">>}

\* the filters of the requests
RequestFilters == {"kind=API", "kind=Component"}

Requests == [query : ProviderQueries, filters : RequestFilters]

NoRequest == [query |-> <<>>, filters |-> "none"]

\* the RewriteInput QueryRewriteService builds for a request: the router passes
\* { filters } as context and rewrite passes { query: redacted, context }
RewriteInputOf(req) == [query |-> req.query, context |-> [filters |-> req.filters]]

\* `rewrite:${JSON.stringify({ query: input.query, filters: input.filters })}`:
\* a property whose value is undefined is left out by JSON.stringify
cacheKey(input) ==
    ("query" :> input.query)
        @@ (IF "filters" \in DOMAIN input THEN "filters" :> input.filters ELSE <<>>)

getFallbackRewrite(query) ==
    [query |-> query, intent |-> <<>>, expanded |-> <<>>,
     boosts |-> [sources |-> <<>>, tags |-> <<>>], filters |-> <<>>]

\* the fallback lists are empty here, so no duplicate is to be removed
mergeResults(fallback, ai) ==
    [query |-> IF ai.query # <<>> THEN ai.query ELSE fallback.query,
     intent |-> ai.intent,
     expanded |-> ai.expanded \o fallback.expanded,
     boosts |-> [sources |-> ai.boosts.sources \o fallback.boosts.sources,
                 tags |-> ai.boosts.tags \o fallback.boosts.tags],
     filters |-> fallback.filters \o ai.filters]

\* performRewrite: the result when withRetry resolved to aiResult (aiOk), and
\* when it rejected after its retries (the catch block)
performRewrite(input, aiOk, aiResult) ==
    IF aiOk
      THEN [kind |-> "return", out |-> mergeResults(getFallbackRewrite(input.query), aiResult)]
      ELSE [kind |-> "return", out |-> getFallbackRewrite(input.query)]

PvInit ==
    /\ state = "CLOSED"
    /\ failureCount = 0
    /\ lastFailureTime = 0
    /\ nextAttemptTime = 0
    /\ failureThreshold = ProviderFailureThreshold
    /\ resetTimeoutMs = MaxReset
    /\ now = 0
    /\ pc = [c \in Callers |-> "idle"]
    /\ admittedIn = [c \in Callers |-> "none"]
    /\ serial = TRUE
    /\ consec = 0
    /\ openedAt = -1
    /\ hoFailAt = -1
    /\ pvHasCache \in BOOLEAN
    /\ pvCache = <<>>
    /\ pvStoredBy = <<>>
    /\ pvPc = [c \in Callers |-> "idle"]
    /\ pvReq = [c \in Callers |-> NoRequest]
    /\ pvIn = [c \in Callers |-> RewriteInputOf(NoRequest)]
    /\ pvOut = [c \in Callers |-> NoOutput]
    /\ pvServed = [c \in Callers |-> "none"]
    /\ pvTimedOut = [c \in Callers |-> FALSE]
    /\ aiFailStreak = 0

PvIdle ==
    /\ pvHasCache = FALSE
    /\ pvCache = <<>>
    /\ pvStoredBy = <<>>
    /\ pvPc = [c \in Callers |-> "idle"]
    /\ pvReq = [c \in Callers |-> NoRequest]
    /\ pvIn = [c \in Callers |-> RewriteInputOf(NoRequest)]
    /\ pvOut = [c \in Callers |-> NoOutput]
    /\ pvServed = [c \in Callers |-> "none"]
    /\ pvTimedOut = [c \in Callers |-> FALSE]
    /\ aiFailStreak = 0

\* OpenAIProvider.rewrite up to its await: the cache lookup and, on a miss,
\* circuitBreaker.execute up to the OpenAI request
ProviderRewrite(c, req) ==
    LET input == RewriteInputOf(req)
        key == cacheKey(input)
    IN /\ pvPc[c] = "idle"
       /\ pc[c] = "idle"
       /\ pvReq' = [pvReq EXCEPT ![c] = req]
       /\ pvIn' = [pvIn EXCEPT ![c] = input]
       /\ pvTimedOut' = [pvTimedOut EXCEPT ![c] = FALSE]
       /\ IF pvHasCache /\ key \in DOMAIN pvCache
            THEN /\ pvPc' = [pvPc EXCEPT ![c] = "returned"]
                 /\ pvOut' = [pvOut EXCEPT ![c] = pvCache[key]]
                 /\ pvServed' = [pvServed EXCEPT ![c] = "cache"]
                 /\ UNCHANGED brkVars
            ELSE /\ ExecuteCallStep(c)
                 /\ pvPc' = [pvPc EXCEPT ![c] = IF IsRejected THEN "threw" ELSE "executing"]
                 /\ pvOut' = [pvOut EXCEPT ![c] = NoOutput]
                 /\ pvServed' = [pvServed EXCEPT ![c] = "none"]
       /\ UNCHANGED <<pvHasCache, pvCache, pvStoredBy, aiFailStreak>>
       /\ UNCHANGED PvOthers

\* a provider call that is dropped once its caller has timed out: its result
\* is not stored
PerformRewriteSettles_dropLate(c, r) ==
    /\ pvPc[c] = "executing"
    /\ ExecuteOkStep(c)
    /\ pvPc' = [pvPc EXCEPT ![c] = "returned"]
    /\ pvOut' = [pvOut EXCEPT ![c] = r.out]
    /\ pvServed' = [pvServed EXCEPT ![c] = "provider"]
    /\ IF pvHasCache /\ ~pvTimedOut[c]
         THEN /\ pvCache' = (cacheKey(pvIn[c]) :> r.out) @@ pvCache
              /\ pvStoredBy' = (cacheKey(pvIn[c]) :> pvReq[c]) @@ pvStoredBy
         ELSE UNCHANGED <<pvCache, pvStoredBy>>
    /\ UNCHANGED <<pvHasCache, pvReq, pvIn, pvTimedOut>>
    /\ UNCHANGED PvOthers

\* performRewrite has settled as r: execute records the outcome, and on a
\* result rewrite stores it in the cache and returns it
PerformRewriteSettles(c, r) ==
    /\ pvPc[c] = "executing"
    /\ IF r.kind = "return"
         THEN /\ ExecuteOkStep(c)
              /\ pvPc' = [pvPc EXCEPT ![c] = "returned"]
              /\ pvOut' = [pvOut EXCEPT ![c] = r.out]
              /\ pvServed' = [pvServed EXCEPT ![c] = "provider"]
              /\ IF pvHasCache
                   THEN /\ pvCache' = (cacheKey(pvIn[c]) :> r.out) @@ pvCache
                        /\ pvStoredBy' = (cacheKey(pvIn[c]) :> pvReq[c]) @@ pvStoredBy
                   ELSE UNCHANGED <<pvCache, pvStoredBy>>
         ELSE /\ ExecuteErrStep(c)
              /\ pvPc' = [pvPc EXCEPT ![c] = "threw"]
              /\ UNCHANGED <<pvOut, pvServed, pvCache, pvStoredBy>>
    /\ UNCHANGED <<pvHasCache, pvReq, pvIn, pvTimedOut>>
    /\ UNCHANGED PvOthers

\* the OpenAI request (with its retries) succeeds
OpenAIResolves(c, aiResult) ==
    /\ PerformRewriteSettles(c, performRewrite(pvIn[c], TRUE, aiResult))
    /\ aiFailStreak' = 0

\* the OpenAI request fails and its retries are exhausted
OpenAIRejects(c) ==
    /\ PerformRewriteSettles(c, performRewrite(pvIn[c], FALSE, NoOutput))
    /\ aiFailStreak' = (IF aiFailStreak < StreakCap THEN aiFailStreak + 1 ELSE StreakCap)

\* the caller has taken the outcome of its rewrite call; the next request
ProviderReturn(c) ==
    /\ pvPc[c] \in {"returned", "threw"}
    /\ pvPc' = [pvPc EXCEPT ![c] = "idle"]
    /\ IF pc[c] = "idle" THEN UNCHANGED brkVars ELSE ReturnStep(c)
    /\ UNCHANGED <<pvHasCache, pvCache, pvStoredBy, pvReq, pvIn, pvOut, pvServed, pvTimedOut,
                   aiFailStreak>>
    /\ UNCHANGED PvOthers

\* the timer of the rewrite stage fires while the provider call it made is
\* still executing: QueryRewriteService.rewrite returns its fallback, the
\* call of the provider goes on
StageTimeout(c) ==
    /\ pvPc[c] = "executing"
    /\ ~pvTimedOut[c]
    /\ pvTimedOut' = [pvTimedOut EXCEPT ![c] = TRUE]
    /\ UNCHANGED <<pvHasCache, pvCache, pvStoredBy, pvPc, pvReq, pvIn, pvOut, pvServed,
                   aiFailStreak>>
    /\ UNCHANGED brkVars
    /\ UNCHANGED PvOthers

PvNext ==
    \/ \E c \in Callers, req \in Requests : ProviderRewrite(c, req)
    \/ \E c \in Callers, aiResult \in ProviderOutputs : OpenAIResolves(c, aiResult)
    \/ \E c \in Callers : OpenAIRejects(c)
    \/ \E c \in Callers : ProviderReturn(c)

(***************************************************************************)
(* POST /query: one request through the pipeline.  The handler runs from   *)
(* one await to the next in one step; the rewrite and re-rank stages are   *)
(* the services above, the embedding call and the search request are       *)
(* settled by their own steps.                                             *)
(***************************************************************************)
\* the query of the request body: missing (or empty), short, or beyond the
\* length limit and holding an e-mail address
\* typeof query: a string, a missing property, a number, an object
QueryTypes == {"string", "undefined", "number", "object"}

\* the validation of POST /query without its typeof test
QueryInvalid_falsyOnly(type, text) ==
    type = "undefined" \/ (type = "string" /\ text = <<>>)

\* !query || typeof query !== 'string' (the numbers and objects sent are truthy)
QueryInvalid(type, text) ==
    \/ type = "undefined" \/ (type = "string" /\ text = <<>>)
    \/ type # "string"

QueryTexts == {<<>>, <<"a">>, <<"a", "@", "a", ".", "a", "a", "a">>}

\* what embed may resolve to
EmbedVectors == {<<>>, <<1, 0>>}

\* the hit lists of a search response
SearchHits == {l \in ItemLists : Len(l) \in {0, 2} /\ \A i \in 1..Len(l) : l[i].match = "none"}

\* how the _search request may end: a 2xx response with hits, a 2xx response
\* whose body has no hits, a non-2xx response, a connection error
BackendResponses ==
    {[kind |-> "ok", hits |-> l, total |-> Len(l) + more] : l \in SearchHits, more \in {0, 1}}
        \cup {[kind |-> k, hits |-> <<>>, total |-> 0] :
                 k \in {"no_hits", "http_error", "transport_error"}}

NoSearch == [query |-> <<>>, expanded |-> <<>>, knn |-> FALSE]

EmptyResult == [items |-> <<>>, total |-> 0]

\* hints = { expandedTerms: out.expanded, boostSources: out.boosts?.sources,
\*           boostTags: out.boosts?.tags, filterTerms: out.filters }
HintsOf(out) ==
    (IF "expanded" \in DOMAIN out THEN "expandedTerms" :> out.expanded ELSE <<>>)
        @@ (IF "boosts" \in DOMAIN out
              THEN ("boostSources" :> out.boosts.sources) @@ ("boostTags" :> out.boosts.tags)
              ELSE <<>>)
        @@ (IF "filters" \in DOMAIN out THEN "filterTerms" :> out.filters ELSE <<>>)

\* (mutant) a failed embedding fails the request
OnEmbedError_rethrow == [kind |-> "throw"]

\* catch { /* ignore embedding failures */ }
OnEmbedError == [kind |-> "continue"]

\* (mutant) search lets the failure of its request through
OnSearchError_rethrow == [kind |-> "throw", out |-> EmptyResult]

\* search: the catch block
OnSearchError == [kind |-> "return", out |-> EmptyResult]

\* OpenSearchClient.search, given how its request ended
search(resp) ==
    IF resp.kind \in {"http_error", "transport_error"}
      THEN OnSearchError
      ELSE [kind |-> "return", out |-> [items |-> resp.hits, total |-> resp.total]]

\* the services createRouterFromConfig builds for the feature flags
QConfig ==
    /\ flagRewrite \in BOOLEAN
    /\ flagSemantic \in BOOLEAN
    /\ flagRerank \in BOOLEAN
    /\ hasQueryRewrite \in {FALSE, flagRewrite}
    /\ hasEmbedding = flagSemantic
    /\ hasReRanker \in {FALSE, flagRerank}

QInit ==
    /\ QConfig
    /\ qType \in QueryTypes
    /\ qQuery \in QueryTexts
    /\ qType # "string" => qQuery = <<>>
    /\ qPc = "idle"
    /\ effectiveQuery = <<>>
    /\ hints = <<>>
    /\ embPc = "none"
    /\ embVec = <<>>
    /\ srchPc = "none"
    /\ srchReq = NoSearch
    /\ srchOut = EmptyResult
    /\ srchKind = "none"
    /\ qStatus = 0
    /\ qResults = <<>>
    /\ qTotal = 0
    /\ aiUsage = <<>>

QIdle ==
    /\ flagRewrite = FALSE
    /\ flagSemantic = FALSE
    /\ flagRerank = FALSE
    /\ hasQueryRewrite = FALSE
    /\ hasEmbedding = FALSE
    /\ hasReRanker = FALSE
    /\ qType = "undefined"
    /\ qQuery = <<>>
    /\ qPc = "idle"
    /\ effectiveQuery = <<>>
    /\ hints = <<>>
    /\ embPc = "none"
    /\ embVec = <<>>
    /\ srchPc = "none"
    /\ srchReq = NoSearch
    /\ srchOut = EmptyResult
    /\ srchKind = "none"
    /\ qStatus = 0
    /\ qResults = <<>>
    /\ qTotal = 0
    /\ aiUsage = <<>>

\* observability.recordAiUsage({ stage, success, ms })
recordAiUsage(log, stage, success) == Append(log, [stage |-> stage, success |-> success])

\* timings.rewriteMs / timings.rerankMs are set once the stage has returned
RewriteTimed == flagRewrite /\ hasQueryRewrite /\ qPc \notin {"idle", "rewriting"}

\* the recordAiUsage calls of the catch block of the handler: a failure for
\* each enabled stage that has no timing yet
OnQueryError(log, rewriteTimed) ==
    LET l1 == IF ~rewriteTimed /\ flagRewrite
                THEN recordAiUsage(log, "rewrite", FALSE) ELSE log
    IN IF flagRerank THEN recordAiUsage(l1, "rerank", FALSE) ELSE l1

\* res.json(...) or res.status(...).json(...)
Respond(status, items, count) ==
    /\ qStatus' = status
    /\ qResults' = items
    /\ qTotal' = count
    /\ qPc' = "responded"

NoResponse == UNCHANGED <<qStatus, qResults, qTotal>>

\* openSearch.search(effectiveQuery, { filters, page, pageSize, hints }) up to
\* its request: the k-NN body when the hints hold a query vector, else the
\* lexical query with the expansions
IssueSearch(eq, h) ==
    /\ srchPc' = "pending"
    /\ srchReq' = [query |-> eq,
                   expanded |-> IF "expandedTerms" \in DOMAIN h THEN h["expandedTerms"] ELSE <<>>,
                   knn |-> "queryVector" \in DOMAIN h /\ Len(h["queryVector"]) > 0]
    /\ qPc' = "searching"
    /\ effectiveQuery' = eq
    /\ hints' = h

\* a handler that starts the embedding and the search together
EmbedOrSearch_parallel(eq, h) ==
    /\ IssueSearch(eq, h)
    /\ embPc' = (IF flagSemantic /\ hasEmbedding THEN "pending" ELSE embPc)

\* the handler from the end of the rewrite stage to its next await
EmbedOrSearch(eq, h) ==
    IF flagSemantic /\ hasEmbedding
      THEN /\ embPc' = "pending"
           /\ qPc' = "embedding"
           /\ effectiveQuery' = eq
           /\ hints' = h
           /\ UNCHANGED <<srchPc, srchReq>>
      ELSE /\ IssueSearch(eq, h)
           /\ UNCHANGED embPc

\* the handler up to its first await
QueryStart ==
    /\ qPc = "idle"
    /\ IF QueryInvalid(qType, qQuery)
         THEN /\ Respond(400, <<>>, 0)
              /\ UNCHANGED <<effectiveQuery, hints, embPc, srchPc, srchReq>>
              /\ UNCHANGED rwVars
         ELSE IF flagRewrite /\ hasQueryRewrite
           THEN /\ RewriteCallStep(qQuery)
                /\ qPc' = "rewriting"
                /\ effectiveQuery' = qQuery
                /\ UNCHANGED <<hints, embPc, srchPc, srchReq>>
                /\ NoResponse
           ELSE /\ EmbedOrSearch(qQuery, <<>>)
                /\ NoResponse
                /\ UNCHANGED rwVars
    /\ UNCHANGED <<embVec, srchOut, srchKind, aiUsage>>
    /\ UNCHANGED <<qConfigVars, rrVars>>
    /\ UNCHANGED QOthers

\* the handler after `await queryRewrite.rewrite(...)`
QueryAfterRewrite ==
    /\ qPc = "rewriting"
    /\ rwPc \in {"returned", "threw"}
    /\ IF rwPc = "threw"
         THEN /\ Respond(500, <<>>, 0)
              /\ aiUsage' = OnQueryError(aiUsage, FALSE)
              /\ UNCHANGED <<effectiveQuery, hints, embPc, srchPc, srchReq>>
         ELSE /\ EmbedOrSearch(rwOut["query"], HintsOf(rwOut))
              /\ aiUsage' = recordAiUsage(aiUsage, "rewrite", TRUE)
              /\ NoResponse
    /\ UNCHANGED <<embVec, srchOut, srchKind>>
    /\ UNCHANGED <<qConfigVars, rwVars, rrVars>>
    /\ UNCHANGED QOthers

EmbedFrame ==
    /\ UNCHANGED <<qPc, effectiveQuery, hints, srchPc, srchReq, srchOut, srchKind, qStatus, qResults,
                   qTotal, aiUsage>>
    /\ UNCHANGED <<qConfigVars, rwVars, rrVars>>
    /\ UNCHANGED QOthers

\* embedding.embed(effectiveQuery) resolves
EmbedResolves(vec) ==
    /\ embPc = "pending"
    /\ embPc' = "resolved"
    /\ embVec' = vec
    /\ EmbedFrame

\* embedding.embed(effectiveQuery) rejects: the provider failed after its
\* retries, or the breaker of the embedding service is open
EmbedRejects ==
    /\ embPc = "pending"
    /\ embPc' = "rejected"
    /\ UNCHANGED embVec
    /\ EmbedFrame

\* the embedding call is one that never completes
EmbedStalls ==
    /\ embPc = "pending"
    /\ embPc' = "stalled"
    /\ UNCHANGED embVec
    /\ EmbedFrame

\* the handler after `await embedding.embed(effectiveQuery)`
QueryAfterEmbed ==
    /\ qPc = "embedding"
    /\ embPc \in {"resolved", "rejected"}
    /\ IF embPc = "rejected" /\ OnEmbedError.kind = "throw"
         THEN /\ Respond(500, <<>>, 0)
              /\ aiUsage' = OnQueryError(aiUsage, RewriteTimed)
              /\ UNCHANGED <<effectiveQuery, hints, srchPc, srchReq>>
         ELSE /\ UNCHANGED aiUsage
              /\ IssueSearch(effectiveQuery,
                             IF embPc = "resolved" /\ Len(embVec) > 0
                               THEN ("queryVector" :> embVec) @@ hints
                               ELSE hints)
              /\ NoResponse
    /\ UNCHANGED <<embPc, embVec, srchOut, srchKind>>
    /\ UNCHANGED <<qConfigVars, rwVars, rrVars>>
    /\ UNCHANGED QOthers

\* the _search request ends and search returns (or throws)
SearchSettles(resp) ==
    /\ srchPc = "pending"
    /\ srchPc' = (IF search(resp).kind = "return" THEN "returned" ELSE "threw")
    /\ srchOut' = search(resp).out
    /\ srchKind' = resp.kind
    /\ UNCHANGED <<qPc, effectiveQuery, hints, embPc, embVec, srchReq, qStatus, qResults, qTotal,
                   aiUsage>>
    /\ UNCHANGED <<qConfigVars, rwVars, rrVars>>
    /\ UNCHANGED QOthers

\* the handler after `await openSearch.search(...)`
QueryAfterSearch ==
    /\ qPc = "searching"
    /\ srchPc \in {"returned", "threw"}
    /\ IF srchPc = "threw"
         THEN /\ Respond(500, <<>>, 0)
              /\ aiUsage' = OnQueryError(aiUsage, RewriteTimed)
              /\ UNCHANGED rrVars
         ELSE IF flagRerank /\ hasReRanker
           THEN /\ ReRankCallStep(srchOut.items)
                /\ qPc' = "reranking"
                /\ NoResponse
                /\ UNCHANGED aiUsage
           ELSE /\ Respond(200, srchOut.items, srchOut.total)
                /\ UNCHANGED <<rrVars, aiUsage>>
    /\ UNCHANGED <<effectiveQuery, hints, embPc, embVec, srchPc, srchReq, srchOut, srchKind>>
    /\ UNCHANGED <<qConfigVars, rwVars>>
    /\ UNCHANGED QOthers

\* the handler after `await reRanker.reRank(...)`
QueryAfterReRank ==
    /\ qPc = "reranking"
    /\ rrPc \in {"returned", "threw"}
    /\ IF rrPc = "threw"
         THEN /\ Respond(500, <<>>, 0)
              /\ aiUsage' = OnQueryError(aiUsage, RewriteTimed)
         ELSE /\ Respond(200, rrOut, srchOut.total)
              /\ aiUsage' = recordAiUsage(aiUsage, "rerank", TRUE)
    /\ UNCHANGED <<effectiveQuery, hints, embPc, embVec, srchPc, srchReq, srchOut, srchKind>>
    /\ UNCHANGED <<qConfigVars, rwVars, rrVars>>
    /\ UNCHANGED QOthers

\* the steps of the handler itself
QueryHandler ==
    \/ QueryStart
    \/ QueryAfterRewrite
    \/ QueryAfterEmbed
    \/ QueryAfterSearch
    \/ QueryAfterReRank

QNext ==
    \/ QueryStart
    \/ \E r \in ProviderOutputs : ProviderResolves(r)
    \/ \E why \in ProviderFailures : ProviderRejects(why)
    \/ TimeoutFires
    \/ QueryAfterRewrite
    \/ \E vec \in EmbedVectors : EmbedResolves(vec)
    \/ EmbedRejects
    \/ EmbedStalls
    \/ QueryAfterEmbed
    \/ \E resp \in BackendResponses : SearchSettles(resp)
    \/ QueryAfterSearch
    \/ ReRankProviderResolves
    \/ ReRankProviderRejects
    \/ ReRankTimeoutFires
    \/ QueryAfterReRank

(***************************************************************************)
(* Ingestion: CatalogIngestion / TechDocsIngestion / ApiIngestion.runOnce, *)
(* the POST /admin/reindex/<source> handlers that run them, and POST /index *)
(***************************************************************************)
\* constructor default of pageSize
DefaultPageSize == 500

\* the three orchestrators createRouterFromConfig may attach to the router
IngestionSources == {"catalog", "techdocs", "apis"}

\* page.nextPageCursor: null, undefined (the property is absent) or a string
NullCursor == [kind |-> "null", str |-> ""]

UndefinedCursor == [kind |-> "undefined", str |-> ""]

StringCursor(s) == [kind |-> "string", str |-> s]

CursorStrings == {"", "c1", "c2"}

Cursors == {NullCursor, UndefinedCursor} \cup {StringCursor(s) : s \in CursorStrings}

\* JavaScript truthiness of a cursor
Truthy(c) == c.kind = "string" /\ c.str # ""

\* the pages a provider may answer a fetch with (items: page.items ?? [])
ProviderPages == [items : 0..MaxPageItems, nextPageCursor : Cursors]

\* the error message the reindex handler answers 500 with
ReindexStage(source) == source \o "-reindex"

\* `while (after)` that keeps looping on every cursor but null
LoopContinues_nonNull(cursor) == cursor.kind # "null"

\* `while (after)`
LoopContinues(cursor) == Truthy(cursor)

\* OpenSearchClient.bulkIndex resolving: no request for an empty list
bulkIndex(docs) == IF docs = 0 THEN 0 ELSE docs

IngInit ==
    /\ ingSource \in IngestionSources
    /\ ingAttached \in BOOLEAN
    /\ pageSize = DefaultPageSize
    /\ reindexPc = "idle"
    /\ reindexStatus = 0
    /\ reindexBody = {}
    /\ errorLog = <<>>
    /\ templatePc = "none"
    /\ ingPc = "idle"
    /\ after = NullCursor
    /\ pages = 0
    /\ total = 0
    /\ fetchLog = <<>>
    /\ seenPages = <<>>
    /\ bulkLog = <<>>
    /\ indexedLog = <<>>
    /\ eventLog = <<>>
    /\ runOut = {}
    /\ runErr = "none"

IngIdle ==
    /\ ingSource = "catalog"
    /\ ingAttached = FALSE
    /\ pageSize = DefaultPageSize
    /\ reindexPc = "idle"
    /\ reindexStatus = 0
    /\ reindexBody = {}
    /\ errorLog = <<>>
    /\ templatePc = "none"
    /\ ingPc = "idle"
    /\ after = NullCursor
    /\ pages = 0
    /\ total = 0
    /\ fetchLog = <<>>
    /\ seenPages = <<>>
    /\ bulkLog = <<>>
    /\ indexedLog = <<>>
    /\ eventLog = <<>>
    /\ runOut = {}
    /\ runErr = "none"

\* a fetch that always asks for the first page
Fetch_forgetCursor(cursor) ==
    fetchLog' = Append(fetchLog, [after |-> NullCursor, limit |-> pageSize])

\* this.provider.fetchEntities / fetchPages / fetchApis({ after, limit })
Fetch(cursor) == fetchLog' = Append(fetchLog, [after |-> cursor, limit |-> pageSize])

\* runOnce up to its first await
RunOnceStart ==
    /\ after' = NullCursor
    /\ pages' = 0
    /\ total' = 0
    /\ Fetch(NullCursor)
    /\ ingPc' = "fetching"
    /\ UNCHANGED <<seenPages, bulkLog, indexedLog, eventLog, runOut, runErr>>

\* an iteration that records the indexing of every page
EndOfIteration_eventPerPage(newTotal, page) ==
    /\ pages' = pages + 1
    /\ after' = page.nextPageCursor
    /\ eventLog' = Append(eventLog, [source |-> ingSource, pages |-> pages + 1,
                                     items |-> newTotal])
    /\ IF LoopContinues(page.nextPageCursor)
       THEN /\ Fetch(page.nextPageCursor)
            /\ ingPc' = "fetching"
            /\ UNCHANGED runOut
       ELSE /\ runOut' = {[pages |-> pages + 1, items |-> newTotal]}
            /\ ingPc' = "resolved"
            /\ UNCHANGED fetchLog

\* the rest of one iteration once the page is dealt with: count the page, move
\* the cursor, and either fetch again or record the run and return
EndOfIteration(newTotal, page) ==
    /\ pages' = pages + 1
    /\ after' = page.nextPageCursor
    /\ IF LoopContinues(page.nextPageCursor)
       THEN /\ Fetch(page.nextPageCursor)
            /\ ingPc' = "fetching"
            /\ UNCHANGED <<eventLog, runOut>>
       ELSE /\ eventLog' = Append(eventLog, [source |-> ingSource, pages |-> pages + 1,
                                             items |-> newTotal])
            /\ runOut' = {[pages |-> pages + 1, items |-> newTotal]}
            /\ ingPc' = "resolved"
            /\ UNCHANGED fetchLog

\* the provider answers the fetch with a page
FetchResolves(page) ==
    /\ ingPc = "fetching"
    /\ Len(seenPages) < MaxPages
    /\ seenPages' = Append(seenPages, page)
    /\ IF page.items > 0
       THEN /\ bulkLog' = Append(bulkLog, [source |-> ingSource, page |-> Len(seenPages) + 1,
                                           docs |-> page.items])
            /\ ingPc' = "indexing"
            /\ UNCHANGED <<after, pages, total, fetchLog, eventLog, runOut>>
       ELSE /\ EndOfIteration(total, page)
            /\ UNCHANGED <<total, bulkLog>>
    /\ UNCHANGED <<indexedLog, runErr>>
    /\ UNCHANGED <<ingConfigVars, reindexVars, ixVars, IngOthers>>

\* the provider's fetch rejects: nothing in runOnce catches it
FetchRejects ==
    /\ ingPc = "fetching"
    /\ ingPc' = "rejected"
    /\ runErr' = "fetch"
    /\ UNCHANGED <<after, pages, total, fetchLog, seenPages, bulkLog, indexedLog, eventLog,
                   runOut>>
    /\ UNCHANGED <<ingConfigVars, reindexVars, ixVars, IngOthers>>

\* indexer.index(items) resolves with what bulkIndex returns
IndexResolves ==
    /\ ingPc = "indexing"
    /\ LET indexed == bulkIndex(bulkLog[Len(bulkLog)].docs)
       IN /\ total' = total + indexed
          /\ indexedLog' = Append(indexedLog, indexed)
          /\ EndOfIteration(total + indexed, seenPages[Len(seenPages)])
    /\ UNCHANGED <<seenPages, bulkLog, runErr>>
    /\ UNCHANGED <<ingConfigVars, reindexVars, ixVars, IngOthers>>

\* a runOnce that catches the failure of a page and goes on with the next
IndexRejects_skipPage ==
    /\ ingPc = "indexing"
    /\ runErr' = "bulk-index"
    /\ EndOfIteration(total, seenPages[Len(seenPages)])
    /\ UNCHANGED <<total, seenPages, bulkLog, indexedLog>>
    /\ UNCHANGED <<ingConfigVars, reindexVars, ixVars, IngOthers>>

\* the _bulk request fails: nothing in runOnce catches it
IndexRejects ==
    /\ ingPc = "indexing"
    /\ ingPc' = "rejected"
    /\ runErr' = "bulk-index"
    /\ UNCHANGED <<after, pages, total, fetchLog, seenPages, bulkLog, indexedLog, eventLog,
                   runOut>>
    /\ UNCHANGED <<ingConfigVars, reindexVars, ixVars, IngOthers>>

\* observability.recordError(stage, e) followed by res.status(500).json(...)
InternalError(stage) ==
    /\ errorLog' = Append(errorLog, stage)
    /\ reindexStatus' = 500
    /\ reindexBody' = {}
    /\ reindexPc' = "responded"

\* a handler that starts the run without ensuring the index template
ReindexStart_runFirst ==
    /\ reindexPc = "idle"
    /\ IF ~ingAttached
       THEN /\ reindexStatus' = 400
            /\ reindexPc' = "responded"
            /\ UNCHANGED runVars
       ELSE /\ reindexPc' = "running"
            /\ RunOnceStart
            /\ UNCHANGED reindexStatus
    /\ UNCHANGED <<reindexBody, errorLog, templatePc>>
    /\ UNCHANGED <<ingConfigVars, ixVars, IngOthers>>

\* POST /admin/reindex/<source> up to its first await
ReindexStart ==
    /\ reindexPc = "idle"
    /\ IF ~ingAttached
       THEN /\ reindexStatus' = 400
            /\ reindexPc' = "responded"
            /\ UNCHANGED templatePc
       ELSE /\ reindexPc' = "template"
            /\ templatePc' = "pending"
            /\ UNCHANGED reindexStatus
    /\ UNCHANGED <<reindexBody, errorLog>>
    /\ UNCHANGED <<ingConfigVars, runVars, ixVars, IngOthers>>

\* ensureIndexTemplate resolves and the handler calls runOnce
TemplateResolves ==
    /\ reindexPc = "template"
    /\ templatePc' = "resolved"
    /\ reindexPc' = "running"
    /\ RunOnceStart
    /\ UNCHANGED <<reindexStatus, reindexBody, errorLog>>
    /\ UNCHANGED <<ingConfigVars, ixVars, IngOthers>>

\* ensureIndexTemplate rejects: the handler's catch
TemplateRejects ==
    /\ reindexPc = "template"
    /\ templatePc' = "rejected"
    /\ InternalError(ReindexStage(ingSource))
    /\ UNCHANGED <<ingConfigVars, runVars, ixVars, IngOthers>>

\* the handler after runOnce settled: res.json({ ok: true, ...result }) or catch
ReindexRespond ==
    /\ reindexPc = "running"
    /\ ingPc \in {"resolved", "rejected"}
    /\ IF ingPc = "resolved"
       THEN /\ reindexStatus' = 200
            /\ reindexBody' = runOut
            /\ reindexPc' = "responded"
            /\ UNCHANGED errorLog
       ELSE InternalError(ReindexStage(ingSource))
    /\ UNCHANGED templatePc
    /\ UNCHANGED <<ingConfigVars, runVars, ixVars, IngOthers>>

IngNext ==
    \/ ReindexStart
    \/ TemplateResolves
    \/ TemplateRejects
    \/ \E page \in ProviderPages : FetchResolves(page)
    \/ FetchRejects
    \/ IndexResolves
    \/ IndexRejects
    \/ ReindexRespond

(***************************************************************************)
(* POST /index                                                             *)
(***************************************************************************)
\* req.body.source by its JavaScript type; str is String(source)
BodySources == {[type |-> "undefined", str |-> "undefined"],
                [type |-> "null", str |-> "null"],
                [type |-> "string", str |-> ""],
                [type |-> "string", str |-> "catalog"],
                [type |-> "number", str |-> "0"],
                [type |-> "number", str |-> "7"]}

\* req.body.docs: an array of len documents, or anything else (len 0)
BodyDocs == [isArray : {TRUE}, len : 0..MaxPageItems] \cup {[isArray |-> FALSE, len |-> 0]}

\* !source
Falsy(source) ==
    \/ source.type \in {"undefined", "null"}
    \/ source.type = "string" /\ source.str = ""
    \/ source.type = "number" /\ source.str = "0"

\* !source || !Array.isArray(docs)
IndexBodyInvalid(source, docs) == Falsy(source) \/ ~docs.isArray

IxInit ==
    /\ ixSource \in BodySources
    /\ ixDocs \in BodyDocs
    /\ ixPc = "idle"
    /\ ixStatus = 0
    /\ ixBulk = <<>>
    /\ ixIndexed = {}

IxIdle ==
    /\ ixSource = [type |-> "undefined", str |-> "undefined"]
    /\ ixDocs = [isArray |-> FALSE, len |-> 0]
    /\ ixPc = "idle"
    /\ ixStatus = 0
    /\ ixBulk = <<>>
    /\ ixIndexed = {}

\* POST /index up to its await
IndexStart ==
    /\ ixPc = "idle"
    /\ IF IndexBodyInvalid(ixSource, ixDocs)
       THEN /\ ixStatus' = 400
            /\ ixPc' = "responded"
            /\ UNCHANGED ixBulk
       ELSE /\ ixBulk' = Append(ixBulk, [source |-> ixSource.str, docs |-> ixDocs.len])
            /\ ixPc' = "indexing"
            /\ UNCHANGED ixStatus
    /\ UNCHANGED <<ixSource, ixDocs, ixIndexed, errorLog>>
    /\ UNCHANGED <<ingConfigVars, runVars, reindexPc, reindexStatus, reindexBody, templatePc,
                   IngOthers>>

\* bulkIndex resolves and the handler answers { ok: true, indexed }
IndexBulkResolves ==
    /\ ixPc = "indexing"
    /\ ixIndexed' = {bulkIndex(ixDocs.len)}
    /\ ixStatus' = 200
    /\ ixPc' = "responded"
    /\ UNCHANGED <<ixSource, ixDocs, ixBulk, errorLog>>
    /\ UNCHANGED <<ingConfigVars, runVars, reindexPc, reindexStatus, reindexBody, templatePc,
                   IngOthers>>

\* the _bulk request fails (there is one only for a non-empty list): the catch
IndexBulkRejects ==
    /\ ixPc = "indexing"
    /\ ixDocs.len > 0
    /\ errorLog' = Append(errorLog, "bulk-index")
    /\ ixStatus' = 500
    /\ ixPc' = "responded"
    /\ UNCHANGED <<ixSource, ixDocs, ixBulk, ixIndexed>>
    /\ UNCHANGED <<ingConfigVars, runVars, reindexPc, reindexStatus, reindexBody, templatePc,
                   IngOthers>>

IxNext ==
    \/ IndexStart
    \/ IndexBulkResolves
    \/ IndexBulkRejects

(***************************************************************************)
(* InMemoryCacheService: a node-cache store with a time to live per entry. *)
(* node-cache keeps, per key, the value and the time t at which the entry  *)
(* expires (0: never); get deletes an entry it finds expired; a periodic   *)
(* check deletes the expired entries when checkperiod is positive.         *)
(***************************************************************************)
CacheKeys == {"k1", "k2"}

CacheValues == {"v1", "v2"}

\* ttlSeconds of a set call: absent, or a number of ticks
NoTtl == 0 - 1

Ttls == {NoTtl} \cup 1..MaxTtl

NoGet == [key |-> "none", hit |-> FALSE, value |-> "undefined", at |-> 0]

CacheInit ==
    /\ stdTTL \in 1..MaxTtl
    /\ checkperiod \in {0, MaxTtl}
    /\ cacheNow = 0
    /\ cacheData = <<>>
    /\ sweepDue = checkperiod
    /\ stored = <<>>
    /\ lastGet = NoGet

CacheIdle ==
    /\ stdTTL = 1
    /\ checkperiod = 0
    /\ cacheNow = 0
    /\ cacheData = <<>>
    /\ sweepDue = 0
    /\ stored = <<>>
    /\ lastGet = NoGet

\* the function f without the key k
Without(f, k) == [x \in DOMAIN f \ {k} |-> f[x]]

\* node-cache: the expiry time of an entry set now (a ttl of 0 never expires)
Livetime(ttl) ==
    IF ttl = 0 THEN 0
    ELSE IF ttl # NoTtl THEN cacheNow + ttl
    ELSE IF stdTTL = 0 THEN 0
    ELSE cacheNow + stdTTL

\* an expiry test that never finds an entry expired
Expired_never(entry) == FALSE

\* node-cache: the entry has an expiry time and it is past
Expired(entry) == entry.t # 0 /\ entry.t < cacheNow

\* forget the last read when its key is written or deleted
ForgetGet(ks) == lastGet' = IF lastGet.key \in ks THEN NoGet ELSE lastGet

\* set(key, value, ttlSeconds?)
CacheSet(k, v, ttl) ==
    /\ cacheData' = [x \in DOMAIN cacheData \cup {k} |->
                        IF x = k THEN [v |-> v, t |-> Livetime(ttl)] ELSE cacheData[x]]
    /\ stored' = [x \in DOMAIN stored \cup {k} |->
                     IF x = k THEN [v |-> v, at |-> cacheNow,
                                    ttl |-> IF ttl = NoTtl THEN stdTTL ELSE ttl]
                     ELSE stored[x]]
    /\ ForgetGet({k})
    /\ UNCHANGED <<stdTTL, checkperiod, cacheNow, sweepDue>>
    /\ UNCHANGED CacheOthers

\* get(key): a hit returns the value, an expired entry is deleted and missed
CacheGet(k) ==
    /\ IF k \in DOMAIN cacheData /\ ~Expired(cacheData[k])
       THEN /\ lastGet' = [key |-> k, hit |-> TRUE, value |-> cacheData[k].v, at |-> cacheNow]
            /\ UNCHANGED cacheData
       ELSE /\ lastGet' = [key |-> k, hit |-> FALSE, value |-> "undefined", at |-> cacheNow]
            /\ cacheData' = Without(cacheData, k)
    /\ UNCHANGED <<stdTTL, checkperiod, cacheNow, sweepDue, stored>>
    /\ UNCHANGED CacheOthers

\* del(key)
CacheDel(k) ==
    /\ k \in DOMAIN cacheData
    /\ cacheData' = Without(cacheData, k)
    /\ stored' = Without(stored, k)
    /\ ForgetGet({k})
    /\ UNCHANGED <<stdTTL, checkperiod, cacheNow, sweepDue>>
    /\ UNCHANGED CacheOthers

\* clear()
CacheClear ==
    /\ cacheData # <<>>
    /\ cacheData' = <<>>
    /\ stored' = <<>>
    /\ ForgetGet(CacheKeys)
    /\ UNCHANGED <<stdTTL, checkperiod, cacheNow, sweepDue>>
    /\ UNCHANGED CacheOthers

\* node-cache's periodic check: delete what has expired, re-arm the timer
CacheSweep ==
    /\ checkperiod > 0
    /\ cacheNow >= sweepDue
    /\ cacheData' = [x \in {y \in DOMAIN cacheData : ~Expired(cacheData[y])} |-> cacheData[x]]
    /\ sweepDue' = cacheNow + checkperiod
    /\ UNCHANGED <<stdTTL, checkperiod, cacheNow, stored, lastGet>>
    /\ UNCHANGED CacheOthers

\* time passes
CacheTick ==
    /\ cacheNow < MaxTime
    /\ cacheNow' = cacheNow + 1
    /\ UNCHANGED <<stdTTL, checkperiod, cacheData, sweepDue, stored, lastGet>>
    /\ UNCHANGED CacheOthers

CacheNext ==
    \/ \E k \in CacheKeys, v \in CacheValues, ttl \in Ttls : CacheSet(k, v, ttl)
    \/ \E k \in CacheKeys : CacheGet(k)
    \/ \E k \in CacheKeys : CacheDel(k)
    \/ CacheClear
    \/ CacheSweep
    \/ CacheTick

(***************************************************************************)
(* OpenSearchClient.search: the body of the _search request.  Strings that *)
(* are put together from parts are sequences of their parts.               *)
(***************************************************************************)
\* options.pageSize ?? 20
DefaultSearchSize == 20

\* this.config.ranking?.sourceWeight ?? 2.0 and tagWeight ?? 1.5, in tenths
DefaultSourceWeight == 20

DefaultTagWeight == 15

\* the floor of knn.num_candidates
MinNumCandidates == 100

SearchQueries == {"api docs", "q"}

\* options.page and options.pageSize: {} when absent, {n} when set
SearchPages == {{}} \cup {{n} : n \in 0..MaxPage}

SearchPageSizes == {{}, {1}, {MaxPageItems + 3}}

\* options.filters: the entries of the object, in order (<<>>: absent or {})
SearchFilters ==
    {<<>>, <<[k |-> "kind", v |-> "API"]>>,
     <<[k |-> "kind", v |-> "API"], [k |-> "owner", v |-> "team-a"]>>}

ExpandedTermLists == {<<>>, <<"openapi">>, <<"openapi", "rest">>, <<"rest", "openapi">>}

\* options.hints, a function on the properties that are set
SearchHints ==
    {e @@ bs @@ bt @@ ft @@ qv :
        e \in {<<>>} \cup {"expandedTerms" :> l : l \in ExpandedTermLists},
        bs \in {<<>>, "boostSources" :> <<"apis">>},
        bt \in {<<>>, "boostTags" :> <<"runbook">>},
        ft \in {<<>>, "filterTerms" :> <<[k |-> "tags", vs |-> <<"a", "b">>]>>},
        qv \in {<<>>} \cup {"queryVector" :> vec : vec \in {<<>>, <<1, 0>>}}}

\* x ?? d, for an option held as {} or {x}
OrElse(opt, d) == IF opt = {} THEN d ELSE CHOOSE x \in opt : TRUE

\* h?.[name] ?? []
HintList(h, name) == IF name \in DOMAIN h THEN h[name] ELSE <<>>

\* Math.max(a, b)
MathMax(a, b) == IF a >= b THEN a ELSE b

\* terms.join(sep)
RECURSIVE Join(_, _)
Join(terms, sep) ==
    IF terms = <<>> THEN <<>>
    ELSE IF Len(terms) = 1 THEN <<terms[1]>>
    ELSE <<terms[1], sep>> \o Join(SubSeq(terms, 2, Len(terms)), sep)

\* a query string that keeps the first expansion only
FinalQuery_firstTermOnly(query, expanded) ==
    IF Len(expanded) > 0 THEN <<query, " OR ", expanded[1]>> ELSE <<query>>

\* finalQuery
FinalQuery(query, expanded) ==
    IF Len(expanded) > 0 THEN <<query, " OR ">> \o Join(expanded, " OR ") ELSE <<query>>

\* from
From(page, size) == MathMax(0, OrElse(page, 0) * OrElse(size, DefaultSearchSize))

\* should
ShouldClauses(h) ==
    [i \in 1..Len(HintList(h, "boostSources")) |->
        [field |-> "source", value |-> HintList(h, "boostSources")[i],
         boost |-> DefaultSourceWeight]]
    \o [i \in 1..Len(HintList(h, "boostTags")) |->
        [field |-> "tags", value |-> HintList(h, "boostTags")[i], boost |-> DefaultTagWeight]]

\* a filter list that leaves the hinted filter terms out
FilterClauses_baseOnly(filters, h) ==
    [i \in 1..Len(filters) |-> [clause |-> "term", field |-> filters[i].k,
                                 values |-> <<filters[i].v>>]]

\* filter: a term clause per caller filter, then a terms clause per hinted one
FilterClauses(filters, h) ==
    [i \in 1..Len(filters) |-> [clause |-> "term", field |-> filters[i].k,
                                 values |-> <<filters[i].v>>]]
    \o [i \in 1..Len(HintList(h, "filterTerms")) |->
        [clause |-> "terms", field |-> HintList(h, "filterTerms")[i].k,
         values |-> HintList(h, "filterTerms")[i].vs]]

\* the test of the vector branch
HasQueryVector(h) == "queryVector" \in DOMAIN h /\ Len(h["queryVector"]) > 0

\* q, a function on the properties of the body; its query is
\* [type, must, should, filter], must being <<>> in a bool query without one
SearchBody(query, page, size, filters, h) ==
    IF HasQueryVector(h)
    THEN ("size" :> OrElse(size, DefaultSearchSize))
         @@ ("query" :> [type |-> "bool", must |-> <<>>, should |-> <<>>,
                         filter |-> FilterClauses(filters, h)])
         @@ ("knn" :> [field |-> "embedding", query_vector |-> h["queryVector"],
                       k |-> OrElse(size, DefaultSearchSize),
                       num_candidates |->
                           MathMax(MinNumCandidates, OrElse(size, DefaultSearchSize) * 2)])
    ELSE ("query" :>
            IF Len(ShouldClauses(h)) > 0 \/ Len(FilterClauses(filters, h)) > 0
            THEN [type |-> "bool", must |-> FinalQuery(query, HintList(h, "expandedTerms")),
                  should |-> ShouldClauses(h), filter |-> FilterClauses(filters, h)]
            ELSE [type |-> "simple_query_string",
                  must |-> FinalQuery(query, HintList(h, "expandedTerms")),
                  should |-> <<>>, filter |-> <<>>])
         @@ ("from" :> From(page, size))
         @@ ("size" :> OrElse(size, DefaultSearchSize))

SbInit ==
    /\ sQuery \in SearchQueries
    /\ sPage \in SearchPages
    /\ sPageSize \in SearchPageSizes
    /\ sFilters \in SearchFilters
    /\ sHints \in SearchHints
    /\ sPc = "idle"
    /\ sBody = <<>>

SbIdle ==
    /\ sQuery = "q"
    /\ sPage = {}
    /\ sPageSize = {}
    /\ sFilters = <<>>
    /\ sHints = <<>>
    /\ sPc = "idle"
    /\ sBody = <<>>

\* search(query, options) up to its request
SearchCall ==
    /\ sPc = "idle"
    /\ sBody' = SearchBody(sQuery, sPage, sPageSize, sFilters, sHints)
    /\ sPc' = "requested"
    /\ UNCHANGED <<sQuery, sPage, sPageSize, sFilters, sHints>>
    /\ UNCHANGED SbOthers

SbNext == SearchCall

(***************************************************************************)
(* PIIRedactionService on its own: the patterns its constructor builds     *)
(* from the config, redact and isEnabled.  A config is a record with any   *)
(* of the five switches; customPatterns is left out (no custom pattern is  *)
(* configured).  Over the alphabet of the texts only the e-mail pattern    *)
(* can match, so the other patterns count for isEnabled and never redact.  *)
(***************************************************************************)
PiiOptions == {"redactEmails", "redactTokens", "redactIPs", "redactPhoneNumbers",
               "redactSSNs"}

PiiConfigs == UNION {[S -> BOOLEAN] : S \in SUBSET PiiOptions}

\* the texts given to redact: the empty text and the texts long enough to hold
\* an e-mail address
PiiTexts == {t \in Texts : Len(t) = 0 \/ Len(t) = MaxQueryChars - 1}

TokenPatterns == <<"bearer_token", "api_key", "aws_access_key", "github_token",
                   "jwt_token">>

\* this.config.<opt> ?? dflt
Configured(config, opt, dflt) == IF opt \in DOMAIN config THEN config[opt] ELSE dflt

\* initializePatterns: the names of the patterns pushed, in order
initializePatterns(config) ==
    (IF Configured(config, "redactEmails", TRUE) THEN <<"email">> ELSE <<>>)
    \o (IF Configured(config, "redactTokens", TRUE) THEN TokenPatterns ELSE <<>>)
    \o (IF Configured(config, "redactIPs", FALSE) THEN <<"ipv4">> ELSE <<>>)
    \o (IF Configured(config, "redactPhoneNumbers", FALSE) THEN <<"phone_us">> ELSE <<>>)
    \o (IF Configured(config, "redactSSNs", FALSE) THEN <<"ssn">> ELSE <<>>)

HasPattern(patterns, name) == \E i \in 1..Len(patterns) : patterns[i] = name

PiiInit ==
    /\ piiConfig \in PiiConfigs
    /\ piiPatterns = initializePatterns(piiConfig)
    /\ piiText \in PiiTexts
    /\ piiPc = "idle"
    /\ piiOut = <<>>

PiiIdle ==
    /\ piiConfig = <<>>
    /\ piiPatterns = <<>>
    /\ piiText = <<>>
    /\ piiPc = "idle"
    /\ piiOut = <<>>

\* redact(text) of the service
PiiRedact ==
    /\ piiPc = "idle"
    /\ piiPc' = "redacted"
    /\ piiOut' = redact(piiText, HasPattern(piiPatterns, "email"))
    /\ UNCHANGED <<piiConfig, piiPatterns, piiText>>
    /\ UNCHANGED PiiOthers

\* isEnabled(): this.patterns.length > 0
PiiIsEnabled ==
    /\ piiPc = "idle"
    /\ piiPc' = "asked"
    /\ piiOut' = (Len(piiPatterns) > 0)
    /\ UNCHANGED <<piiConfig, piiPatterns, piiText>>
    /\ UNCHANGED PiiOthers

PiiNext == PiiRedact \/ PiiIsEnabled

(***************************************************************************)
(* One document from OpenSearchClient.bulkIndex through                    *)
(* OpenSearchClient.search to HeuristicReRankProvider.reRank.  The query   *)
(* occurs neither in the title nor in the text of the document and the     *)
(* document has no tags, so of the bonuses of the provider only the source *)
(* boost and the freshness boost can apply; the item is the only one, so   *)
(* its tie-breaker is zero.  Scores are in millionths.                     *)
(***************************************************************************)
\* score += 0.8 when the source of the item is a boosted source
SourceBonus == 800000

\* score += 0.5 * freshness, for a document as old as the window, half as old,
\* and just indexed
FreshnessBonuses == {0, 250000, 500000}

IndexPrefixes == {"", "backstage", "docs"}

\* `${this.config.indexPrefix ?? 'backstage'}-${source}`
IndexName(prefix, source) ==
    (IF prefix = {} THEN "backstage" ELSE CHOOSE p \in prefix : TRUE) \o "-" \o source

\* the action line and the document bulkIndex writes for a doc: the index it
\* goes to, and { ...d, source, updated_at }
BulkDoc(prefix, source) ==
    [_index |-> IndexName(prefix, source), _source |-> [source |-> source]]

\* search: the SearchItem built from a hit
HitToItem(h, score) ==
    [score |-> score, source |-> h._index, fields |-> h._source]

\* reRank: the score of an item standing alone in the list
ItemScore(it, boostSources, freshness) ==
    it.score
        + (IF it.source # "" /\ it.source \in boostSources THEN SourceBonus ELSE 0)
        + freshness

E2eInit ==
    /\ bPrefix \in {{}} \cup {{p} : p \in IndexPrefixes}
    /\ bSource \in IngestionSources
    /\ bBoosts \in SUBSET IngestionSources
    /\ bHitScore \in BaseScores
    /\ bFreshness \in FreshnessBonuses
    /\ bPc = "idle"
    /\ bStored = <<>>
    /\ bItem = <<>>
    /\ bScore = 0

E2eIdle ==
    /\ bPrefix = {}
    /\ bSource = "catalog"
    /\ bBoosts = {}
    /\ bHitScore = 0
    /\ bFreshness = 0
    /\ bPc = "idle"
    /\ bStored = <<>>
    /\ bItem = <<>>
    /\ bScore = 0

\* bulkIndex(source, [doc]) resolves
E2eBulkIndex ==
    /\ bPc = "idle"
    /\ bPc' = "indexed"
    /\ bStored' = BulkDoc(bPrefix, bSource)
    /\ UNCHANGED <<bPrefix, bSource, bBoosts, bHitScore, bFreshness, bItem, bScore>>
    /\ UNCHANGED E2eOthers

\* search returns the document as a hit
E2eSearch ==
    /\ bPc = "indexed"
    /\ bPc' = "found"
    /\ bItem' = HitToItem(bStored, bHitScore)
    /\ UNCHANGED <<bPrefix, bSource, bBoosts, bHitScore, bFreshness, bStored, bScore>>
    /\ UNCHANGED E2eOthers

\* reRank(query, [item], { boosts: { sources } })
E2eReRank ==
    /\ bPc = "found"
    /\ bPc' = "reranked"
    /\ bScore' = ItemScore(bItem, bBoosts, bFreshness)
    /\ UNCHANGED <<bPrefix, bSource, bBoosts, bHitScore, bFreshness, bStored, bItem>>
    /\ UNCHANGED E2eOthers

E2eNext == E2eBulkIndex \/ E2eSearch \/ E2eReRank

(***************************************************************************)
(* Concurrent POST /admin/reindex/<source> requests for one source whose   *)
(* ingestion is attached.  Each request runs the handler and its own call  *)
(* of runOnce on the one ingestion object; after, pages and total are      *)
(* locals of the call.  A page is reduced to whether it has items and      *)
(* whether its cursor is truthy.                                           *)
(***************************************************************************)
\* the call a run makes: its request, and "fetch" or "bulk"
Call(r, op) == [run |-> r, op |-> op]

\* runOnce up to its first await, for request r
OvRunOnceStart(r) ==
    /\ ovPages' = [ovPages EXCEPT ![r] = 0]
    /\ ovLog' = Append(ovLog, Call(r, "fetch"))
    /\ ovPc' = [ovPc EXCEPT ![r] = "fetching"]

\* the end of an iteration of run r: pages += 1, then `while (after)`
OvEndOfIteration(r, more) ==
    /\ ovPages' = [ovPages EXCEPT ![r] = ovPages[r] + 1]
    /\ IF more /\ ovPages[r] + 1 < MaxPages
       THEN /\ ovLog' = Append(ovLog, Call(r, "fetch"))
            /\ ovPc' = [ovPc EXCEPT ![r] = "fetching"]
       ELSE /\ ovPc' = [ovPc EXCEPT ![r] = "done"]
            /\ UNCHANGED ovLog

OvInit ==
    /\ ovPc = [r \in Callers |-> "idle"]
    /\ ovPages = [r \in Callers |-> 0]
    /\ ovMore = [r \in Callers |-> FALSE]
    /\ ovLog = <<>>

\* the handler of request r up to `await ensureIndexTemplate()`
OvReindexStart(r) ==
    /\ ovPc[r] = "idle"
    /\ ovPc' = [ovPc EXCEPT ![r] = "template"]
    /\ UNCHANGED <<ovPages, ovMore, ovLog>>
    /\ UNCHANGED OvOthers

\* ensureIndexTemplate resolves and the handler calls runOnce
OvTemplateResolves(r) ==
    /\ ovPc[r] = "template"
    /\ OvRunOnceStart(r)
    /\ UNCHANGED ovMore
    /\ UNCHANGED OvOthers

\* ensureIndexTemplate, the fetch or the bulk request of r rejects: 500
OvRejects(r) ==
    /\ ovPc[r] \in {"template", "fetching", "indexing"}
    /\ ovPc' = [ovPc EXCEPT ![r] = "failed"]
    /\ UNCHANGED <<ovPages, ovMore, ovLog>>
    /\ UNCHANGED OvOthers

\* the provider answers the fetch of run r
OvFetchResolves(r, hasItems, more) ==
    /\ ovPc[r] = "fetching"
    /\ ovMore' = [ovMore EXCEPT ![r] = more]
    /\ IF hasItems
       THEN /\ ovLog' = Append(ovLog, Call(r, "bulk"))
            /\ ovPc' = [ovPc EXCEPT ![r] = "indexing"]
            /\ UNCHANGED ovPages
       ELSE OvEndOfIteration(r, more)
    /\ UNCHANGED OvOthers

\* the bulk request of run r resolves
OvIndexResolves(r) ==
    /\ ovPc[r] = "indexing"
    /\ OvEndOfIteration(r, ovMore[r])
    /\ UNCHANGED ovMore
    /\ UNCHANGED OvOthers

OvNext ==
    \/ \E r \in Callers : OvReindexStart(r)
    \/ \E r \in Callers : OvTemplateResolves(r)
    \/ \E r \in Callers : OvRejects(r)
    \/ \E r \in Callers, hasItems \in BOOLEAN, more \in BOOLEAN : OvFetchResolves(r, hasItems, more)
    \/ \E r \in Callers : OvIndexResolves(r)

(***************************************************************************)
(* Specifications                                                          *)
(***************************************************************************)
InitBreaker == BrkInit /\ RetryIdle /\ ClsIdle /\ RwIdle /\ RrIdle /\ PvIdle /\ QIdle /\ IngIdle /\ IxIdle /\ CacheIdle /\ SbIdle /\ PiiIdle /\ E2eIdle /\ OvInit

SpecBreaker == InitBreaker /\ [][BrkNext]_vars

InitRetry == BrkIdle /\ RetryInit /\ ClsIdle /\ RwIdle /\ RrIdle /\ PvIdle /\ QIdle /\ IngIdle /\ IxIdle /\ CacheIdle /\ SbIdle /\ PiiIdle /\ E2eIdle /\ OvInit

SpecRetry == InitRetry /\ [][RetryNext]_vars

InitClassify == BrkIdle /\ RetryIdle /\ ClsInit /\ RwIdle /\ RrIdle /\ PvIdle /\ QIdle /\ IngIdle /\ IxIdle /\ CacheIdle /\ SbIdle /\ PiiIdle /\ E2eIdle /\ OvInit

SpecClassify == InitClassify /\ [][ClsNext]_vars

InitRewrite == BrkIdle /\ RetryIdle /\ ClsIdle /\ RwInit /\ RrIdle /\ PvIdle /\ QIdle /\ IngIdle /\ IxIdle /\ CacheIdle /\ SbIdle /\ PiiIdle /\ E2eIdle /\ OvInit

SpecRewrite == InitRewrite /\ [][RwNext]_vars

InitReRank == BrkIdle /\ RetryIdle /\ ClsIdle /\ RwIdle /\ RrInit /\ PvIdle /\ QIdle /\ IngIdle /\ IxIdle /\ CacheIdle /\ SbIdle /\ PiiIdle /\ E2eIdle /\ OvInit

SpecReRank == InitReRank /\ [][RrNext]_vars

InitProvider == PvInit /\ RetryIdle /\ ClsIdle /\ RwIdle /\ RrIdle /\ QIdle /\ IngIdle /\ IxIdle /\ CacheIdle /\ SbIdle /\ PiiIdle /\ E2eIdle /\ OvInit

SpecProvider == InitProvider /\ [][PvNext]_vars

\* one /query request; the rewrite and re-rank services are the ones
\* createRouterFromConfig builds (enabled, with a provider), their timeout
\* budgets configured or zero
InitQuery ==
    /\ BrkIdle /\ RetryIdle /\ ClsIdle /\ PvIdle /\ IngIdle /\ IxIdle /\ CacheIdle /\ SbIdle /\ PiiIdle /\ E2eIdle /\ OvInit
    /\ QInit
    /\ RwInit /\ rwQuery = <<>> /\ maxQueryLen = MaxQueryChars - 1
    /\ rwEnabled = hasQueryRewrite /\ rwHasProvider = hasQueryRewrite
    /\ hasQueryRewrite \/ (~rwTimeoutOn /\ ~redactEmails)
    /\ RrInit /\ rrItems = <<>> /\ rrTopK \in {{}, {1}}
    /\ rrEnabled = hasReRanker /\ rrHasProvider = hasReRanker
    /\ hasReRanker \/ (~rrTimeoutOn /\ rrTopK = {})

SpecQuery == InitQuery /\ [][QNext]_vars

\* one /query request and one /index request to a router with every stage
\* enabled and every budget set
InitRequests ==
    /\ BrkIdle /\ RetryIdle /\ ClsIdle /\ PvIdle /\ IngIdle /\ CacheIdle /\ SbIdle /\ PiiIdle /\ E2eIdle /\ OvInit
    /\ IxInit
    /\ QInit /\ Len(qQuery) <= 1
    /\ flagRewrite /\ flagSemantic /\ flagRerank /\ hasQueryRewrite /\ hasReRanker
    /\ RwInit /\ rwQuery = <<>> /\ maxQueryLen = MaxQueryChars - 1
    /\ rwEnabled /\ rwHasProvider /\ rwTimeoutOn /\ redactEmails
    /\ RrInit /\ rrItems = <<>> /\ rrTopK = {1}
    /\ rrEnabled /\ rrHasProvider /\ rrTimeoutOn

RequestsNext == QNext \/ IxNext

SpecRequests == InitRequests /\ [][RequestsNext]_vars

\* the queries of the timeout races: one within the length limit, one beyond it
\* and holding an e-mail address
RaceQueries == {<<"a">>, <<"a", "@", "a", ".", "a", "a", "a">>}

\* the two stages that race their provider against a timer, side by side
InitRaces ==
    /\ BrkIdle /\ RetryIdle /\ ClsIdle
    /\ RwInit /\ rwQuery \in RaceQueries /\ maxQueryLen = MaxQueryChars - 1
    /\ RrInit /\ Len(rrItems) = MaxItems - 1
    /\ PvIdle /\ QIdle /\ IngIdle /\ IxIdle /\ CacheIdle /\ SbIdle /\ PiiIdle /\ E2eIdle /\ OvInit

RacesNext == RwNext \/ RrNext

SpecRaces == InitRaces /\ [][RacesNext]_vars

\* one reindex request
InitIngest ==
    /\ BrkIdle /\ RetryIdle /\ ClsIdle /\ RwIdle /\ RrIdle /\ PvIdle /\ QIdle
    /\ IngInit /\ IxIdle /\ CacheIdle /\ SbIdle /\ PiiIdle /\ E2eIdle /\ OvInit

SpecIngest == InitIngest /\ [][IngNext]_vars

\* one cache used by any number of set, get, del and clear calls
InitCache ==
    /\ BrkIdle /\ RetryIdle /\ ClsIdle /\ RwIdle /\ RrIdle /\ PvIdle /\ QIdle
    /\ IngIdle /\ IxIdle /\ CacheInit /\ SbIdle /\ PiiIdle /\ E2eIdle /\ OvInit

SpecCache == InitCache /\ [][CacheNext]_vars

\* one call of search
InitSearch ==
    /\ BrkIdle /\ RetryIdle /\ ClsIdle /\ RwIdle /\ RrIdle /\ PvIdle /\ QIdle
    /\ IngIdle /\ IxIdle /\ CacheIdle /\ SbInit /\ PiiIdle /\ E2eIdle /\ OvInit

SpecSearch == InitSearch /\ [][SbNext]_vars

\* one call of redact or of isEnabled on a freshly built PIIRedactionService
InitPii ==
    /\ BrkIdle /\ RetryIdle /\ ClsIdle /\ RwIdle /\ RrIdle /\ PvIdle /\ QIdle
    /\ IngIdle /\ IxIdle /\ CacheIdle /\ SbIdle /\ PiiInit /\ E2eIdle /\ OvInit

SpecPii == InitPii /\ [][PiiNext]_vars

\* the provider called by rewrite stages that may time out on it
LateNext == PvNext \/ \E c \in Callers : StageTimeout(c)

SpecLate == InitProvider /\ [][LateNext]_vars

\* one document indexed, found and re-ranked
InitE2e ==
    /\ BrkIdle /\ RetryIdle /\ ClsIdle /\ RwIdle /\ RrIdle /\ PvIdle /\ QIdle
    /\ IngIdle /\ IxIdle /\ CacheIdle /\ SbIdle /\ PiiIdle /\ E2eInit /\ OvInit

SpecE2e == InitE2e /\ [][E2eNext]_vars

\* reindex requests for one source, arriving at any time
InitOverlap ==
    /\ BrkIdle /\ RetryIdle /\ ClsIdle /\ RwIdle /\ RrIdle /\ PvIdle /\ QIdle
    /\ IngIdle /\ IxIdle /\ CacheIdle /\ SbIdle /\ PiiIdle /\ E2eIdle /\ OvInit

SpecOverlap == InitOverlap /\ [][OvNext]_vars

(***************************************************************************)
(* Claims about the circuit breaker (checked under SpecBreaker).           *)
(***************************************************************************)
\* a caller starts an execute call in this step
Starts(c) == pc[c] = "idle" /\ pc'[c] # "idle"

InFlight == {c \in Callers : pc[c] = "inflight"}

\* C2: with calls made one at a time on a fresh breaker, the breaker is CLOSED
\* exactly while fewer than failureThreshold execute calls have failed since the
\* last success (and the failure counter then equals that number); once exactly
\* failureThreshold have failed in a row the counter equals failureThreshold and
\* the breaker has left CLOSED: it is OPEN as long as no later probe is in flight.
C2_OpensExactlyAtThreshold ==
    serial =>
        /\ (consec < failureThreshold => state = "CLOSED" /\ failureCount = consec)
        /\ (consec >= failureThreshold => state # "CLOSED")
        /\ (consec = failureThreshold => failureCount = failureThreshold)
        /\ (consec = failureThreshold /\ InFlight = {} => state = "OPEN")

C2_Witness ==
    /\ serial
    /\ failureThreshold = MaxThreshold
    /\ consec = failureThreshold
    /\ state = "OPEN"
    /\ failureCount = failureThreshold

\* C3: while the breaker is OPEN and now < nextAttemptTime, an execute call is
\* rejected with the circuit-open error, its operation is not invoked, and the
\* state, the failure counter and nextAttemptTime are left as they were.
C3_OpenRejectsWithoutInvoking ==
    [][(state = "OPEN" /\ now < nextAttemptTime) =>
          \A c \in Callers : Starts(c) =>
              /\ pc'[c] = "rejected"
              /\ admittedIn'[c] = "none"
              /\ state' = state
              /\ failureCount' = failureCount
              /\ nextAttemptTime' = nextAttemptTime]_vars

C3_Witness ==
    /\ state = "OPEN"
    /\ now < nextAttemptTime
    /\ \E c \in Callers : pc[c] = "rejected"

\* C4: once the cooldown of an OPEN breaker has elapsed (now >= nextAttemptTime,
\* which with calls made one at a time is the time it opened plus
\* resetTimeoutMs), the next execute call is let through: its operation is
\* invoked and the breaker is HALF_OPEN; when the operation of a call admitted
\* in HALF_OPEN succeeds, the breaker is CLOSED with failure count 0.
C4_ProbeAfterCooldown ==
    [][/\ (state = "OPEN" /\ now >= nextAttemptTime) =>
              \A c \in Callers : Starts(c) =>
                  /\ pc'[c] = "inflight"
                  /\ admittedIn'[c] = "HALF_OPEN"
                  /\ state' = "HALF_OPEN"
       /\ \A c \in Callers :
              (pc[c] = "inflight" /\ admittedIn[c] = "HALF_OPEN" /\ pc'[c] = "ok") =>
                  (state' = "CLOSED" /\ failureCount' = 0)
       /\ (serial' /\ state' = "OPEN") =>
              nextAttemptTime' = openedAt' + resetTimeoutMs']_vars

C4_Witness ==
    /\ serial
    /\ openedAt >= 0
    /\ now >= openedAt + resetTimeoutMs
    /\ state = "CLOSED"
    /\ failureCount = 0
    /\ \E c \in Callers : pc[c] = "ok"

\* C5 (as claimed): when the operation of a call admitted in HALF_OPEN fails, the
\* breaker is OPEN at once with nextAttemptTime = time of the failure +
\* resetTimeoutMs, and every execute call started during the following
\* resetTimeoutMs is rejected without invoking its operation.
C5_HalfOpenFailureReopens ==
    [][/\ \A c \in Callers :
              (pc[c] = "inflight" /\ admittedIn[c] = "HALF_OPEN" /\ pc'[c] = "err") =>
                  (state' = "OPEN" /\ nextAttemptTime' = now + resetTimeoutMs)
       /\ (hoFailAt >= 0 /\ now < hoFailAt + resetTimeoutMs) =>
              \A c \in Callers : Starts(c) => pc'[c] = "rejected"]_vars

\* C6 (as claimed): while the breaker is HALF_OPEN and the operation of the probe
\* is in flight, no other execute call has its operation invoked.
C6_SingleProbe ==
    [][(state = "HALF_OPEN" /\ \E p \in Callers :
            pc[p] = "inflight" /\ admittedIn[p] = "HALF_OPEN") =>
          \A c \in Callers : ~(pc[c] = "idle" /\ pc'[c] = "inflight")]_vars

\* C7 (as claimed): under every interleaving the failure counter is reset to zero
\* only while the breaker is CLOSED or HALF_OPEN, never while it is OPEN.
C7_ResetOnlyWhenNotOpen ==
    [][(failureCount > 0 /\ failureCount' = 0) =>
          state \in {"CLOSED", "HALF_OPEN"}]_vars

C9_FailFastOnPermanentError ==
    \A i \in 1..Len(errs) :
        ~isRetryableError(errs[i]) =>
            /\ Len(errs) = i
            /\ attempts = i
            /\ rPc = "rejected"
            /\ thrown = errs[i]

(***************************************************************************)
(* Claims about the error classifier (checked under SpecClassify).         *)
(***************************************************************************)
CodeOf(e) == IF Has(e, "code") THEN {e["code"]} ELSE {}
StatusOf(e) == IF Has(e, "status") THEN {e["status"]} ELSE {}
TypeOf(e) == IF Has(e, "type") THEN {e["type"]} ELSE {}

\* C10 (as claimed): isRetryableError(e) is true exactly when e.code is one of
\* ECONNRESET, ENOTFOUND, TIMEOUT, or e.status is one of 408, 429, 500, 502, 503,
\* 504, or e.type is one of insufficient_quota, server_error, also for errors
\* that carry several of these properties.
C10_PlainDisjunction ==
    clsPc = "classified" =>
        (clsOut <=>
            \/ CodeOf(clsErr) \cap {"ECONNRESET", "ENOTFOUND", "TIMEOUT"} # {}
            \/ StatusOf(clsErr) \cap {408, 429, 500, 502, 503, 504} # {}
            \/ TypeOf(clsErr) \cap {"insufficient_quota", "server_error"} # {})

\* C10 (amended): the type is consulted only for an error without a (non-zero)
\* status: isRetryableError(e) is true exactly when e.code is one of
\* ECONNRESET, ENOTFOUND, TIMEOUT, or e.status is one of 408, 429, 500, 502, 503,
\* 504, or e has no status (or status 0) and e.type is one of
\* insufficient_quota, server_error.
C10_StatusBeforeType ==
    clsPc = "classified" =>
        (clsOut <=>
            \/ CodeOf(clsErr) \cap {"ECONNRESET", "ENOTFOUND", "TIMEOUT"} # {}
            \/ StatusOf(clsErr) \cap {408, 429, 500, 502, 503, 504} # {}
            \/ /\ StatusOf(clsErr) \subseteq {0}
               /\ TypeOf(clsErr) \cap {"insufficient_quota", "server_error"} # {})

C10_Witness ==
    /\ clsPc = "classified"
    /\ clsErr = ("status" :> 400) @@ ("type" :> "server_error")
    /\ clsOut = FALSE

(***************************************************************************)
(* Claims about the query rewrite stage (checked under SpecRewrite).       *)
(***************************************************************************)
RewriteFailures == {"error", "circuit_open", "timeout"}

\* C1: when the stage is enabled and the rewrite call is settled by a provider
\* rejection, an open breaker or the timeout, rewrite does not throw: it
\* resolves to the input query truncated to maxQueryLen and then redacted, with
\* no intent, expansion, boost or filter hints.
C1_RewriteFallsBack ==
    /\ rwPc # "threw"
    /\ (rwPc = "returned" /\ rwCause \in RewriteFailures) =>
           /\ rwOut["query"] = redact(truncate(rwQuery), redactEmails).redacted
           /\ DOMAIN rwOut \cap HintFields = {}
    /\ ~(rwPc = "awaiting" /\ provPc # "pending" /\ timerPc # "armed")

C1_Witness ==
    /\ rwPc = "returned"
    /\ rwCause = "timeout"
    /\ Len(rwQuery) > maxQueryLen
    /\ rwOut["query"] = <<"[EMAIL]">>
    /\ DOMAIN rwOut = {"query", "piiFound"}

\* C11: when the stage is disabled or has no provider, rewrite returns the
\* input query truncated to maxQueryLen, with no hints.
C11_DisabledReturnsTruncated ==
    (rwPc = "returned" /\ rwCause = "disabled") =>
        /\ rwOut["query"] = truncate(rwQuery)
        /\ DOMAIN rwOut \cap HintFields = {}

(***************************************************************************)
(* Claims about the timeout races (checked under SpecRaces).               *)
(***************************************************************************)
\* C14: when the timer of the rewrite or of the re-rank stage fires while the
\* provider call is pending, the stage returns its fallback in that step, the
\* provider call stays pending (it is not cancelled), and from then on no
\* completion or failure of the provider changes what the stage returned or
\* makes it throw.
C14_LateCompletionDiscarded ==
    [][/\ (rwPc = "awaiting" /\ timerPc = "armed" /\ timerPc' = "fired") =>
            /\ rwPc' = "returned"
            /\ rwOut' = ("query" :> rwRedacted) @@ PiiFound(rwFound)
            /\ provPc = "pending" /\ provPc' = "pending"
       /\ (rwPc = "returned" /\ rwCause = "timeout") =>
            /\ rwPc' = "returned"
            /\ rwOut' = rwOut
       /\ (rrPc = "awaiting" /\ rrTimerPc = "armed" /\ rrTimerPc' = "fired") =>
            /\ rrPc' = "returned"
            /\ rrOut' = rrItems
            /\ rrProvPc = "pending" /\ rrProvPc' = "pending"
       /\ (rrPc = "returned" /\ rrCause = "timeout") =>
            /\ rrPc' = "returned"
            /\ rrOut' = rrItems
      ]_vars

C14_Witness ==
    /\ rwPc = "returned" /\ rwCause = "timeout" /\ provPc = "resolved"
    /\ rwOut = ("query" :> rwRedacted) @@ PiiFound(rwFound)
    /\ rrPc = "returned" /\ rrCause = "timeout" /\ rrProvPc = "rejected"
    /\ rrOut = rrItems /\ rrTail # <<>>

(***************************************************************************)
(* Claims about the re-rank stage (checked under SpecReRank).              *)
(***************************************************************************)
\* C18: reRank never throws, and when the provider fails or the timeout fires
\* first it returns the input list itself: same items, same order, the items
\* beyond topK included.
C18_ReRankFallsBack ==
    /\ rrPc # "threw"
    /\ (rrPc = "returned" /\ rrCause \in {"error", "timeout"}) => rrOut = rrItems
    /\ ~(rrPc = "awaiting" /\ rrProvPc # "pending" /\ rrTimerPc # "armed")

C18_Witness ==
    /\ rrPc = "returned"
    /\ rrCause = "timeout"
    /\ Len(rrItems) = MaxItems
    /\ rrTopK = {1}
    /\ HeuristicReRank(rrProvIn) \o rrTail # rrItems

\* C19: only the first min(topK, n) items (topK is 50 when not configured) are
\* passed to the provider; when the provider's order is returned, the output
\* has the n items of the input, its first min(topK, n) places hold the
\* re-ranked head, and every later place holds the input item of that place,
\* unchanged.
C19_OnlyHeadReordered ==
    LET n == Len(rrItems)
        k == TopK(rrItems)
    IN /\ (rrTopK = {} /\ n <= DefaultTopK) => k = n
       /\ (rrTopK # {}) => \A t \in rrTopK : k = (IF t < n THEN t ELSE n)
       /\ rrProvPc # "none" => rrProvIn = SubSeq(rrItems, 1, k)
       /\ (rrPc = "returned" /\ rrCause = "provider") =>
             /\ Len(rrOut) = n
             /\ {rrOut[i].id : i \in 1..k} = 1..k
             /\ \A i \in (k + 1)..n : rrOut[i] = rrItems[i]

C19_Witness ==
    /\ rrPc = "returned"
    /\ rrCause = "provider"
    /\ Len(rrItems) = MaxItems
    /\ rrTopK = {MaxItems - 1}
    /\ rrOut[1].id = 2
    /\ rrOut[MaxItems] = rrItems[MaxItems]

\* C20: in the order the heuristic provider returns, of two candidates with
\* equal computed scores (backend score plus bonuses) the one that came
\* earlier in the input comes earlier.
C20_TiesKeepInputOrder ==
    (rrProvPc = "resolved") =>
        LET out == HeuristicReRank(rrProvIn) IN
        \A a, b \in 1..Len(out) :
            (a < b /\ HeuristicScore(rrProvIn[out[a].id]) = HeuristicScore(rrProvIn[out[b].id]))
                => out[a].id < out[b].id

(***************************************************************************)
(* Claims about the rewrite provider (checked under SpecProvider).         *)
(***************************************************************************)
\* C12: a request is served a cached rewrite only if the entry was stored by
\* a request with the same redacted query and the same filters.
C12_CacheKeyedByQueryAndFilters ==
    [][\A c \in Callers :
          (pvPc[c] = "idle" /\ pvPc'[c] = "returned" /\ pvServed'[c] = "cache") =>
              pvStoredBy[cacheKey(pvIn'[c])] = pvReq'[c]
      ]_vars

\* C13: once 5 rewrite calls in a row had their OpenAI request fail, the
\* provider's breaker is OPEN.
C13_BreakerOpensAfterFiveFailures ==
    aiFailStreak >= ProviderFailureThreshold => state = "OPEN"

(***************************************************************************)
(* Claims about the /query pipeline (checked under SpecQuery).             *)
(***************************************************************************)
\* C15: when the embedding call has failed, the handler goes on: the search it
\* issues is for the effective query and carries no query vector (it is the
\* lexical search), and the response, once sent, is a success.
C15_EmbedFailureSwallowed ==
    embPc = "rejected" =>
        /\ qPc = "embedding" => ENABLED QueryAfterEmbed
        /\ srchPc # "none" => (~srchReq.knn /\ srchReq.query = effectiveQuery)
        /\ "queryVector" \notin DOMAIN hints
        /\ qPc = "responded" => qStatus = 200

C15_Witness ==
    /\ embPc = "rejected"
    /\ qPc = "responded"
    /\ qStatus = 200
    /\ srchKind = "ok"
    /\ Len(qResults) = 2

\* C16: when the embedding call never completes, the handler still has a step
\* to take (a timer of the embedding stage lets it go on to the search).
C16_EmbedRacedAgainstTimer ==
    (qPc = "embedding" /\ embPc = "stalled") => ENABLED QueryHandler

\* C17: search never throws; when its request ends in a non-2xx response or a
\* connection error it returns {items: [], total: 0}, and the request is then
\* answered successfully with no results.
C17_SearchFailureGivesEmptyResult ==
    /\ srchPc # "threw"
    /\ srchKind \in {"http_error", "transport_error"} =>
          /\ srchOut = EmptyResult
          /\ qPc = "searching" => ENABLED QueryAfterSearch
          /\ qPc = "responded" => (qStatus = 200 /\ qResults = <<>> /\ qTotal = 0)

C17_Witness ==
    /\ srchKind = "http_error"
    /\ qPc = "responded"
    /\ qStatus = 200
    /\ qResults = <<>>
    /\ rrCause = "provider"

(***************************************************************************)
(* Claims about ingestion (checked under SpecIngest).                      *)
(***************************************************************************)
RECURSIVE SumSeq(_)
SumSeq(s) == IF s = <<>> THEN 0 ELSE s[1] + SumSeq(SubSeq(s, 2, Len(s)))

\* the positions of the non-empty pages among the pages returned, in order
RECURSIVE NonEmptyPages(_, _)
NonEmptyPages(ps, i) ==
    IF i > Len(ps) THEN <<>>
    ELSE IF ps[i].items > 0 THEN <<i>> \o NonEmptyPages(ps, i + 1)
    ELSE NonEmptyPages(ps, i + 1)

\* the provider returned the pages of seenPages with a null next-cursor on the
\* last one only
NullOnlyOnLast ==
    /\ seenPages # <<>>
    /\ seenPages[Len(seenPages)].nextPageCursor = NullCursor
    /\ \A i \in 1..(Len(seenPages) - 1) : seenPages[i].nextPageCursor # NullCursor

\* C21: when runOnce has returned and the provider returned n pages with a null
\* next-cursor on the last one only, there were exactly n fetches, the first
\* with a null cursor and each later one with the cursor of the page before;
\* bulk-index was called once per non-empty page, in page order, with that
\* page's items; and the result is pages = n, items = the sum of the indexed
\* counts.
C21_RunOnceContract ==
    (ingPc = "resolved" /\ NullOnlyOnLast) =>
        LET n == Len(seenPages)
            nonEmpty == NonEmptyPages(seenPages, 1)
        IN /\ Len(fetchLog) = n
           /\ fetchLog[1].after = NullCursor
           /\ \A i \in 2..n : fetchLog[i].after = seenPages[i - 1].nextPageCursor
           /\ \A i \in 1..n : fetchLog[i].limit = pageSize
           /\ Len(bulkLog) = Len(nonEmpty)
           /\ \A j \in 1..Len(bulkLog) :
                 /\ bulkLog[j].page = nonEmpty[j]
                 /\ bulkLog[j].docs = seenPages[nonEmpty[j]].items
                 /\ bulkLog[j].source = ingSource
           /\ Len(indexedLog) = Len(bulkLog)
           /\ runOut = {[pages |-> n, items |-> SumSeq(indexedLog)]}

\* a run over three pages, the middle one empty, with two different cursors
C21_Witness ==
    /\ ingPc = "resolved"
    /\ NullOnlyOnLast
    /\ Len(seenPages) = 3
    /\ seenPages[1].items = 2 /\ seenPages[2].items = 0 /\ seenPages[3].items = 1
    /\ seenPages[1].nextPageCursor = StringCursor("c1")
    /\ seenPages[2].nextPageCursor = StringCursor("c2")
    /\ runOut = {[pages |-> 3, items |-> 3]}

\* every page returned so far, except possibly the last, carried a cursor the
\* loop continues on
EarlierCursorsTruthy ==
    \A i \in 1..(Len(seenPages) - 1) : Truthy(seenPages[i].nextPageCursor)

LastCursor == seenPages[Len(seenPages)].nextPageCursor

C23_FailFast ==
    runErr = "bulk-index" =>
        /\ ingPc = "rejected"
        /\ runOut = {}
        /\ Len(bulkLog) = Len(indexedLog) + 1
        /\ bulkLog[Len(bulkLog)].page = Len(seenPages)
        /\ Len(fetchLog) = Len(seenPages)
        /\ pages = Len(seenPages) - 1
        /\ total = SumSeq(indexedLog)
        /\ reindexPc \in {"running", "responded"}
        /\ reindexPc = "running" => ENABLED ReindexRespond
        /\ reindexPc = "responded" =>
              /\ reindexStatus = 500
              /\ reindexBody = {}
              /\ errorLog = <<ReindexStage(ingSource)>>

\* the second page's bulk-index call failed after the first page was indexed,
\* and the handler has answered
C23_Witness ==
    /\ runErr = "bulk-index"
    /\ Len(seenPages) = 2
    /\ indexedLog = <<2>>
    /\ Len(bulkLog) = 2
    /\ reindexPc = "responded"
    /\ reindexStatus = 500

\* C24: a run that has returned has emitted exactly one indexing event, with
\* the run's source and the page and item totals it returned, all pages
\* fetched and all bulk-index calls finished by then; a run that has not
\* returned, or was aborted by a failure, has emitted none.
C24_OneIndexingEventPerRun ==
    /\ ingPc = "resolved" =>
          /\ Len(eventLog) = 1
          /\ eventLog[1].source = ingSource
          /\ runOut = {[pages |-> eventLog[1].pages, items |-> eventLog[1].items]}
          /\ eventLog[1].pages = Len(seenPages)
          /\ eventLog[1].items = SumSeq(indexedLog)
          /\ Len(indexedLog) = Len(bulkLog)
          /\ Len(fetchLog) = Len(seenPages)
    /\ ingPc # "resolved" => eventLog = <<>>

\* a TechDocs run over two pages that indexed three documents
C24_Witness ==
    /\ ingPc = "resolved"
    /\ eventLog = <<[source |-> "techdocs", pages |-> 2, items |-> 3]>>
    /\ reindexPc = "responded"
    /\ reindexBody = {[pages |-> 2, items |-> 3]}

(***************************************************************************)
(* Claims about the cache (checked under SpecCache).                       *)
(***************************************************************************)
\* C25: for the last get of a key that was set and not written or deleted
\* since: a get before the entry's time to live had elapsed returned the value
\* stored, and a get after it had elapsed returned undefined and the entry has
\* been absent from the store ever since, whether or not the periodic check
\* ran in between.
C25_TtlExpiry ==
    lastGet.key \in DOMAIN stored =>
        LET s == stored[lastGet.key]
        IN /\ lastGet.at < s.at + s.ttl => (lastGet.hit /\ lastGet.value = s.v)
           /\ lastGet.at > s.at + s.ttl =>
                 /\ ~lastGet.hit
                 /\ lastGet.value = "undefined"
                 /\ lastGet.key \notin DOMAIN cacheData

\* a get after the time to live of an entry no periodic check could remove
C25_Witness ==
    /\ checkperiod = 0
    /\ "k1" \in DOMAIN stored
    /\ stored["k1"].ttl = 1
    /\ lastGet.key = "k1"
    /\ lastGet.at > stored["k1"].at + stored["k1"].ttl
    /\ ~lastGet.hit

(***************************************************************************)
(* Claims about the order of the stages and the validation of the bodies   *)
(* (C26 under SpecQuery, C27 under SpecRequests).                          *)
(***************************************************************************)
RewriteOn == flagRewrite /\ hasQueryRewrite

EmbedOn == flagSemantic /\ hasEmbedding

ReRankOn == flagRerank /\ hasReRanker

\* the stages whose call the handler is waiting for
StagesInProgress ==
    {st \in {"rewrite", "embed", "search", "rerank"} :
        \/ st = "rewrite" /\ rwPc = "awaiting"
        \/ st = "embed" /\ embPc \in {"pending", "stalled"}
        \/ st = "search" /\ srchPc = "pending"
        \/ st = "rerank" /\ rrPc = "awaiting"}

\* the hints of the search, the query vector aside, are the fields of what
\* rewrite returned
HintsAreRewriteOutput ==
    /\ "expandedTerms" \in DOMAIN hints <=> "expanded" \in DOMAIN rwOut
    /\ "expandedTerms" \in DOMAIN hints => hints["expandedTerms"] = rwOut["expanded"]
    /\ "filterTerms" \in DOMAIN hints <=> "filters" \in DOMAIN rwOut
    /\ "filterTerms" \in DOMAIN hints => hints["filterTerms"] = rwOut["filters"]
    /\ "boostSources" \in DOMAIN hints <=> "boosts" \in DOMAIN rwOut
    /\ "boostTags" \in DOMAIN hints <=> "boosts" \in DOMAIN rwOut
    /\ "boostSources" \in DOMAIN hints => hints["boostSources"] = rwOut["boosts"].sources
    /\ "boostTags" \in DOMAIN hints => hints["boostTags"] = rwOut["boosts"].tags

\* C26: the handler waits for at most one stage at a time; only enabled stages
\* run; embed starts only after rewrite has returned, search only after
\* rewrite has returned and embed has settled, re-rank only after search has
\* returned; the search is issued for the query rewrite returned (the request's
\* query without a rewrite stage) with the hints rewrite returned, and re-rank
\* is called with the items search returned.
C26_StagesInOrder ==
    /\ Cardinality(StagesInProgress) <= 1
    /\ rwPc # "idle" => RewriteOn
    /\ embPc # "none" => (EmbedOn /\ (RewriteOn => rwPc = "returned"))
    /\ srchPc # "none" =>
          /\ RewriteOn => rwPc = "returned"
          /\ EmbedOn => embPc \in {"resolved", "rejected"}
          /\ srchReq.query = (IF RewriteOn THEN rwOut["query"] ELSE qQuery)
          /\ srchReq.query = effectiveQuery
          /\ IF RewriteOn THEN HintsAreRewriteOutput ELSE DOMAIN hints \subseteq {"queryVector"}
          /\ srchReq.expanded =
                (IF RewriteOn /\ "expanded" \in DOMAIN rwOut THEN rwOut["expanded"] ELSE <<>>)
    /\ rrPc # "idle" =>
          /\ ReRankOn
          /\ srchPc = "returned"
          /\ rrItems = srchOut.items

\* a request that went through the four stages: the provider rewrote the
\* query, the embedding gave a vector, the search found two hits and the
\* re-rank provider ordered them
C26_Witness ==
    /\ qPc = "responded"
    /\ qStatus = 200
    /\ rwCause = "provider"
    /\ "expandedTerms" \in DOMAIN hints
    /\ embPc = "resolved"
    /\ srchReq.knn
    /\ srchKind = "ok"
    /\ rrCause = "provider"
    /\ Len(rrItems) = 2

\* C27: a /query request whose query is missing or not a string is answered
\* 400 by the first step of the handler and no rewrite, embedding, search or
\* re-rank call is ever made for it; a /index request whose source is missing
\* or whose docs is not an array is answered 400 by the first step of the
\* handler and no bulk-index call is ever made for it.
C27_MalformedRejected ==
    /\ qType # "string" =>
          /\ qPc \in {"idle", "responded"}
          /\ qPc = "responded" => qStatus = 400
          /\ rwPc = "idle" /\ provPc = "none"
          /\ embPc = "none"
          /\ srchPc = "none"
          /\ rrPc = "idle" /\ rrProvPc = "none"
    /\ (ixSource.type \in {"undefined", "null"} \/ ~ixDocs.isArray) =>
          /\ ixPc \in {"idle", "responded"}
          /\ ixPc = "responded" => ixStatus = 400
          /\ ixBulk = <<>>

\* both handlers have answered a malformed body: a number as query, and docs
\* without a source
C27_Witness ==
    /\ qType = "number"
    /\ qPc = "responded"
    /\ qStatus = 400
    /\ ixSource.type = "undefined"
    /\ ixDocs.isArray /\ ixDocs.len = 2
    /\ ixPc = "responded"
    /\ ixStatus = 400

(***************************************************************************)
(* Claims about the search request (checked under SpecSearch).             *)
(***************************************************************************)
\* the hints hold a query vector with at least one component
VectorGiven == "queryVector" \in DOMAIN sHints /\ sHints["queryVector"] # <<>>

\* where the result window of the request starts (the backend starts at 0
\* when the body names no from)
WindowStart == IF "from" \in DOMAIN sBody THEN sBody["from"] ELSE 0

\* C28: the result window of every search request, lexical or k-NN, starts at
\* page * pageSize, page being 0 and pageSize 20 when absent.
C28_FromIsPageTimesPageSize ==
    sPc = "requested" =>
        WindowStart = (IF sPage = {} THEN 0 ELSE CHOOSE n \in sPage : TRUE)
                          * (IF sPageSize = {} THEN 20 ELSE CHOOSE n \in sPageSize : TRUE)

\* C29: without a query vector the query string of the request is the query,
\* then " OR " and an expansion term for every expansion term of the hints, in
\* their order; without expansion terms it is the query alone.
C29_LexicalQueryString ==
    (sPc = "requested" /\ ~VectorGiven) =>
        LET fq == sBody["query"].must
            ex == IF "expandedTerms" \in DOMAIN sHints THEN sHints["expandedTerms"] ELSE <<>>
        IN /\ Len(fq) = 1 + 2 * Len(ex)
           /\ fq[1] = sQuery
           /\ \A i \in 1..Len(ex) : fq[2 * i] = " OR " /\ fq[2 * i + 1] = ex[i]

\* "api docs" with the expansions openapi and rest
C29_Witness ==
    /\ sPc = "requested"
    /\ ~VectorGiven
    /\ sQuery = "api docs"
    /\ "expandedTerms" \in DOMAIN sHints
    /\ sHints["expandedTerms"] = <<"openapi", "rest">>
    /\ sBody["query"].must = <<"api docs", " OR ", "openapi", " OR ", "rest">>

\* C30: the request carries a knn section, and no lexical query string, exactly
\* when the hints hold a non-empty query vector; with or without it, the
\* filter list of the request holds a term clause for every filter of the
\* caller and a terms clause for every filter term of the hints.
C30_KnnBranchAndFilters ==
    sPc = "requested" =>
        LET fl == sBody["query"].filter
            ft == IF "filterTerms" \in DOMAIN sHints THEN sHints["filterTerms"] ELSE <<>>
        IN /\ "knn" \in DOMAIN sBody <=> VectorGiven
           /\ "knn" \in DOMAIN sBody =>
                 /\ sBody["knn"].query_vector = sHints["queryVector"]
                 /\ sBody["query"].must = <<>>
           /\ "knn" \notin DOMAIN sBody => sBody["query"].must # <<>>
           /\ \A i \in 1..Len(sFilters) :
                 \E j \in 1..Len(fl) :
                     fl[j] = [clause |-> "term", field |-> sFilters[i].k,
                              values |-> <<sFilters[i].v>>]
           /\ \A i \in 1..Len(ft) :
                 \E j \in 1..Len(fl) :
                     fl[j] = [clause |-> "terms", field |-> ft[i].k, values |-> ft[i].vs]

\* a k-NN request with two filters of the caller and one of the hints
C30_Witness ==
    /\ sPc = "requested"
    /\ VectorGiven
    /\ "knn" \in DOMAIN sBody
    /\ Len(sFilters) = 2
    /\ "filterTerms" \in DOMAIN sHints
    /\ Len(sBody["query"].filter) = 3

(***************************************************************************)
(* Claims about the findings of the redaction                              *)
(***************************************************************************)
\* C31 (as claimed): the findings of a rewrite call (found, handed on as
\* piiFound and to the warning log) depend only on the kinds and number of the
\* matches: every text that redacts to the same redacted text, the matched
\* secrets apart, has the same findings.
C31_FindingsHideMatches ==
    (rwPc # "idle" /\ isEnabled) =>
        \A t \in Texts :
            redact(truncate(t), redactEmails).redacted = rwRedacted
                => redact(truncate(t), redactEmails).found = rwFound

\* some pattern kind is switched on in the config
SomeKindConfigured == \E opt \in DOMAIN piiConfig : piiConfig[opt]

\* C32 (as claimed): a service built from the empty config has no active
\* pattern, so isEnabled() returns false and redact returns the text unchanged
\* with no findings; isEnabled() returns true once a pattern kind is configured.
C32_EmptyConfigIsDisabled ==
    /\ (piiConfig = <<>> /\ piiPc = "asked") => piiOut = FALSE
    /\ (piiConfig = <<>> /\ piiPc = "redacted")
           => piiOut = [redacted |-> piiText, found |-> <<>>]
    /\ (SomeKindConfigured /\ piiPc = "asked") => piiOut = TRUE

(***************************************************************************)
(* Claims about the AI usage counter of POST /query (SpecQuery)            *)
(***************************************************************************)
\* recordAiUsage was called for the stage with this outcome
Counted(stage, success) ==
    \E i \in 1..Len(aiUsage) : aiUsage[i] = [stage |-> stage, success |-> success]

\* why a stage fell back: its provider failed, the breaker rejected the call,
\* or the timer fired first
FallbackCauses == {"error", "circuit_open", "timeout"}

\* C33 (as claimed): when the request is answered, a rewrite (re-rank) stage
\* that fell back is counted with outcome failure and not with outcome
\* success, and a stage whose provider result was used is counted with
\* outcome success.
C33_UsageByOutcome ==
    qPc = "responded" =>
        /\ rwCause \in FallbackCauses
               => Counted("rewrite", FALSE) /\ ~Counted("rewrite", TRUE)
        /\ rwCause = "provider" => Counted("rewrite", TRUE)
        /\ rrCause \in FallbackCauses
               => Counted("rerank", FALSE) /\ ~Counted("rerank", TRUE)
        /\ rrCause = "provider" => Counted("rerank", TRUE)

(***************************************************************************)
(* Claims about the order of a reindex request (SpecIngest)                *)
(***************************************************************************)
\* runOnce has been called
RunOnceCalled == ingPc # "idle" \/ fetchLog # <<>>

\* C34: runOnce is called only once ensureIndexTemplate has resolved; when it
\* rejected, runOnce is never called and the request is answered 500; when no
\* ingestion is attached for the source, the request is answered 400 and
\* neither ensureIndexTemplate nor runOnce is called.
C34_TemplateBeforeRun ==
    /\ RunOnceCalled => templatePc = "resolved"
    /\ templatePc = "rejected"
           => ~RunOnceCalled /\ reindexPc = "responded" /\ reindexStatus = 500
    /\ ~ingAttached => templatePc = "none" /\ ~RunOnceCalled
    /\ (~ingAttached /\ reindexPc = "responded") => reindexStatus = 400

C34_Witness ==
    /\ templatePc = "rejected"
    /\ reindexPc = "responded"
    /\ reindexStatus = 500
    /\ fetchLog = <<>>

(***************************************************************************)
(* Claims about the breaker under concurrent calls (SpecBreaker)           *)
(***************************************************************************)
\* the transitions of the state diagram
LegalTransitions ==
    {<<"CLOSED", "OPEN">>, <<"OPEN", "HALF_OPEN">>, <<"HALF_OPEN", "CLOSED">>,
     <<"HALF_OPEN", "OPEN">>}

\* C35 (as claimed): under every interleaving of execute calls the state of the
\* breaker changes only along CLOSED->OPEN, OPEN->HALF_OPEN, HALF_OPEN->CLOSED
\* and HALF_OPEN->OPEN; an OPEN breaker never becomes CLOSED in one step.
C35_OnlyDiagramTransitions ==
    [][state' # state => <<state, state'>> \in LegalTransitions]_vars

\* a call admitted in some state has just failed
FailureCompletes == \E c \in Callers : pc[c] = "inflight" /\ pc'[c] = "err"

\* C36: whenever the breaker is OPEN or HALF_OPEN its failure counter is at
\* least the threshold, under every interleaving of execute calls; and the
\* failure of a call that completes while the breaker is HALF_OPEN leaves it
\* OPEN.
C36_TrippedMeansAtThreshold ==
    /\ [](state \in {"OPEN", "HALF_OPEN"} => failureCount >= failureThreshold)
    /\ [][(state = "HALF_OPEN" /\ FailureCompletes) => state' = "OPEN"]_vars

\* the breaker is HALF_OPEN with a probe in flight beside another call
C36_Witness ==
    /\ state = "HALF_OPEN"
    /\ failureCount >= failureThreshold
    /\ \A c \in Callers : pc[c] = "inflight"

(***************************************************************************)
(* Claims about the text POST /query sends to the AI capabilities          *)
(***************************************************************************)
\* the privacy settings in force: those of the rewrite service when there is
\* one, else either setting of privacy.redactEmails
PrivacySettings == IF hasQueryRewrite THEN {redactEmails} ELSE BOOLEAN

\* the query of the request, truncated and redacted
ScrubbedQueries == {redact(truncate(qQuery), e).redacted : e \in PrivacySettings}

\* the queries a rewrite provider answers with
RewrittenQueries == {r.query : r \in ProviderOutputs}

\* C37 (as claimed): the query given to the rewrite provider is the truncated
\* and redacted query of the request, and the text given to embed is that
\* scrubbed query or the provider's rewrite of it, whichever stages are on.
C37_OutboundTextScrubbed ==
    /\ provPc # "none" => provIn \in ScrubbedQueries
    /\ embPc # "none" => effectiveQuery \in ScrubbedQueries \cup RewrittenQueries

(***************************************************************************)
(* Claims about provider calls that outlive their rewrite stage (SpecLate) *)
(***************************************************************************)
\* the provider call of c completes in this step, after its stage timed out
LateCompletion(c) == pvTimedOut[c] /\ pvPc[c] = "executing" /\ pvPc'[c] = "returned"

\* a call for this query has completed late and its caller has not moved on
CompletedLate(query) ==
    \E c \in Callers : /\ pvTimedOut[c]
                       /\ pvPc[c] = "returned"
                       /\ pvServed[c] = "provider"
                       /\ pvReq[c].query = query

\* C38: a provider call that completes after its rewrite stage timed out
\* stores its result in the cache and records a success on the breaker, and a
\* request for the same query that starts afterwards is answered from the
\* cache without a call through the breaker.
C38_LateResultIsCached ==
    /\ [][\A c \in Callers :
            LateCompletion(c) =>
                /\ state' = "CLOSED" /\ failureCount' = 0
                /\ pvHasCache => /\ cacheKey(pvIn[c]) \in DOMAIN pvCache'
                                 /\ pvCache'[cacheKey(pvIn[c])] = pvOut'[c]]_vars
    /\ [][\A d \in Callers :
            (/\ pvHasCache
             /\ pvPc[d] = "idle" /\ pvPc'[d] # "idle"
             /\ CompletedLate(pvReq'[d].query))
                => /\ pvPc'[d] = "returned"
                   /\ pvServed'[d] = "cache"
                   /\ pvOut'[d] = pvCache[cacheKey(pvIn'[d])]
                   /\ pc'[d] = "idle"]_vars

C38_Witness ==
    \E c, d \in Callers :
        /\ c # d
        /\ pvTimedOut[c] /\ pvPc[c] = "returned" /\ pvServed[c] = "provider"
        /\ pvPc[d] = "returned" /\ pvServed[d] = "cache"
        /\ pvReq[d].query = pvReq[c].query
        /\ pvStoredBy[cacheKey(pvIn[d])] = pvReq[c]

(***************************************************************************)
(* Claims about the source boost from index to re-rank (SpecE2e)           *)
(***************************************************************************)
\* C39 (as claimed): an item that search returns for a document bulk-indexed
\* under source S and that is re-ranked with S among the boosted sources has
\* the source-boost bonus in its score: its score is what it would be without
\* boosted sources, plus the bonus.
C39_SourceBoostReachesItem ==
    (bPc = "reranked" /\ bSource \in bBoosts)
        => bScore = ItemScore(bItem, {}, bFreshness) + SourceBonus

(***************************************************************************)
(* Claims about overlapping ingestion runs (SpecOverlap)                   *)
(***************************************************************************)
\* the run of request r is between its first fetch and its return
InRun(r) == ovPc[r] \in {"fetching", "indexing"}

\* a call of one run lies between two calls of another
Interleaved(log) ==
    \E i, j, k \in 1..Len(log) :
        i < j /\ j < k /\ log[i].run = log[k].run /\ log[j].run # log[i].run

\* C40 (as claimed): no two runs for the source are in progress at once, and
\* the fetch and bulk-index calls of one run never fall between those of
\* another.
C40_RunsDoNotOverlap ==
    /\ \A r1, r2 \in Callers : (InRun(r1) /\ InRun(r2)) => r1 = r2
    /\ ~Interleaved(ovLog)

====
